---- MODULE Spec2Model ----
(***************************************************************************)
(* Model of the scraper subsystem of the job-listing backend:              *)
(*   - ScraperRegistry  (scrapers/scraperRegistry.js)                      *)
(*   - JobPortalScraper (scrapers/JobPortalScraper.js) and its two site    *)
(*     scrapers (OficinaDeTrabajoCeiScraper.js, LinkedInJobsScraper.js)    *)
(*   - ScraperService   (services/scraperService.js)                       *)
(*                                                                         *)
(* JavaScript runs each piece of code between two awaits atomically, so    *)
(* one action is one such piece: the synchronous prefix of a call, or the  *)
(* continuation that runs when an awaited GET, timer or upsert settles.    *)
(* Every runScraper call owns a slot of `runs`, holding the scraper        *)
(* instance it created and the position of its suspended async functions.  *)
(*                                                                         *)
(* Not represented: the query and location options (they only change the   *)
(* query string), the HTML markup (a page is the list of listings that     *)
(* extractJobsFromPage returns for it), wall-clock timestamps.             *)
(***************************************************************************)
EXTENDS Integers, Sequences, FiniteSets, TLC

VARIABLES
    scrapers,       \* ScraperRegistry.scrapers: insertion-ordered <<name, class>> entries
    activeScrapes,  \* ScraperService.activeScrapes: scrapeId -> info, as a set of records
    scrapeHistory,  \* ScraperService.scrapeHistory
    store,          \* the Job collection: the set of stored documents
    runs,           \* one slot per runScraper call
    batch,          \* the runMultipleScrapers / runMultipleScrapersSequential call
    nextSeq,        \* the number of the next runScraper call
    now,            \* the clock Date.now() reads, in milliseconds
    lim             \* the inputs a behaviour may draw from (fixed by Init)

vars == <<scrapers, activeScrapes, scrapeHistory, store, runs, batch, nextSeq, now, lim>>

(***************************************************************************)
(* Bounds of the model.                                                    *)
(***************************************************************************)
MaxRuns == 2          \* runScraper calls per behaviour, service specification
MaxPagesScr == 2      \* largest options.maxPages, scrape specification
MaxRetriesCfg == 2    \* largest config.maxRetries, scrape specification
MaxClock == 1         \* milliseconds the clock may advance, listing specifications
MaxDays == 5          \* largest N of the relative dates, date specification

(***************************************************************************)
(* Program constants.                                                      *)
(***************************************************************************)
HistoryCap == 100
BaseMaxRetries == 3
OficinaMaxRetries == 3
LinkedInMaxRetries == 2
BaseDelay == 1000
OficinaDelay == 2000
LinkedInDelay == 3000
LinkedInPageSize == 25
TitleSlugMax == 50
CompanySlugMax == 30

(***************************************************************************)
(* Values.                                                                 *)
(***************************************************************************)
\* JavaScript null, for options and for options.config
Null == [null |-> TRUE]
IsNull(x) == "null" \in DOMAIN x

\* x[f] of an object that may lack the property (undefined is falsy, like 0)
Prop(x, f) == IF f \in DOMAIN x THEN x[f] ELSE 0

\* a || b on numbers
OrElse(a, b) == IF a # 0 THEN a ELSE b

Oficina == "OficinaDeTrabajoCeiScraper"
LinkedIn == "LinkedInJobsScraper"
Base == "JobPortalScraper"

(***************************************************************************)
(* Text. A JavaScript string is the sequence of its characters; a URL is   *)
(* written with its origin and its path markers as single elements, the    *)
(* digits of a listing id as characters.                                   *)
(***************************************************************************)
UpperCase == <<"A","B","C","D","E","F","G","H","I","J","K","L","M",
               "N","O","P","Q","R","S","T","U","V","W","X","Y","Z">>
LowerCase == <<"a","b","c","d","e","f","g","h","i","j","k","l","m",
               "n","o","p","q","r","s","t","u","v","w","x","y","z">>
DigitChars == <<"0","1","2","3","4","5","6","7","8","9">>
\* the characters \s matches, among those the model uses
Whitespace == {" ", "\n", "\t"}

IsDigit(c) == \E i \in 1..10 : DigitChars[i] = c

\* String.prototype.toLowerCase
toLowerCase(s) ==
    [i \in 1..Len(s) |->
        IF \E k \in 1..26 : UpperCase[k] = s[i]
        THEN LowerCase[CHOOSE k \in 1..26 : UpperCase[k] = s[i]]
        ELSE s[i]]

RECURSIVE ReplaceWhitespaceRuns(_, _)
\* s.replace(/\s+/g, by)
ReplaceWhitespaceRuns(s, by) ==
    IF s = <<>> THEN <<>>
    ELSE IF Head(s) \in Whitespace
         THEN IF Len(s) > 1 /\ s[2] \in Whitespace
              THEN ReplaceWhitespaceRuns(Tail(s), by)
              ELSE <<by>> \o ReplaceWhitespaceRuns(Tail(s), by)
         ELSE <<Head(s)>> \o ReplaceWhitespaceRuns(Tail(s), by)

RECURSIVE TrimStart(_)
TrimStart(s) ==
    IF s # <<>> /\ Head(s) \in Whitespace THEN TrimStart(Tail(s)) ELSE s

RECURSIVE TrimEnd(_)
TrimEnd(s) ==
    IF s # <<>> /\ s[Len(s)] \in Whitespace THEN TrimEnd(SubSeq(s, 1, Len(s) - 1)) ELSE s

\* String.prototype.trim
trim(s) == TrimEnd(TrimStart(s))

\* s.substring(0, n)
substring(s, n) == IF Len(s) <= n THEN s ELSE SubSeq(s, 1, n)

RECURSIVE ToDecimal(_)
\* the decimal digits of a number, as template literals write it
ToDecimal(n) ==
    IF n < 10 THEN <<DigitChars[n + 1]>>
    ELSE ToDecimal(n \div 10) \o <<DigitChars[(n % 10) + 1]>>

RECURSIVE DigitRun(_, _)
\* the (\d*) that starts at position i of s
DigitRun(s, i) ==
    IF i <= Len(s) /\ IsDigit(s[i]) THEN <<s[i]>> \o DigitRun(s, i + 1) ELSE <<>>

\* The first capture of marker(\d+) in s for a marker of markers, as
\* String.prototype.match finds it (leftmost); <<>> when there is no match.
MatchId(s, markers) ==
    LET hits == {i \in 1..Len(s) : s[i] \in markers /\ DigitRun(s, i + 1) # <<>>}
    IN  IF hits = {} THEN <<>>
        ELSE DigitRun(s, (CHOOSE i \in hits : \A j \in hits : i <= j) + 1)

\* whether the characters of w stand at position i of s
MatchesAt(s, i, w) ==
    /\ i + Len(w) - 1 <= Len(s)
    /\ SubSeq(s, i, i + Len(w) - 1) = w

RECURSIVE SkipSpace(_, _)
\* the position behind the \s* that starts at position i of s
SkipSpace(s, i) ==
    IF i <= Len(s) /\ s[i] \in Whitespace THEN SkipSpace(s, i + 1) ELSE i

RECURSIVE ParseInt(_)
\* parseInt of a run of digits
ParseInt(d) ==
    IF d = <<>> THEN 0
    ELSE 10 * ParseInt(SubSeq(d, 1, Len(d) - 1))
         + (CHOOSE k \in 0..9 : DigitChars[k + 1] = d[Len(d)])

\* cleanText
cleanText(text) ==
    IF text = <<>> THEN <<>>
    ELSE trim(ReplaceWhitespaceRuns(text, " "))

(***************************************************************************)
(* The listing elements a page can hold: the text of the title, company    *)
(* and location nodes and the href of the link (<<>>: none).               *)
(***************************************************************************)
Dev == <<"D","e","v">>
Ops == <<"O","p","s">>
DevOps == <<"D","e","v"," ","O","p","s">>
Acme == <<"A","c","m","e"," ">>
Santiago == <<"S","c","l">>
\* the 'unknown' generateExternalId puts for an empty slug
Unknown == <<"u","n","k","n","o","w","n">>

\* the origins of the absolute links of the model
HttpOrigins == {"https://example.com", "https://www.oficinaempleo.cl", "https://www.linkedin.com"}

\* a listing with every field and a source listing id in its link
CardA == [title |-> Dev, company |-> Acme, location |-> Santiago,
          href |-> <<"https://example.com", "/jobs/view/", "1", "7", "?", "id=", "1", "7">>]
\* the same listing, its title changed since
CardA2 == [CardA EXCEPT !.title = DevOps]
\* a listing without location
CardB == [title |-> Ops, company |-> Acme, location |-> <<>>,
          href |-> <<"https://example.com", "/jobs/view/", "2", "?", "id=", "2">>]
\* listings whose links carry no listing id: the same title and company
\* behind two links, and a title that differs in case and spacing only
CardC == [title |-> DevOps, company |-> Acme, location |-> Santiago,
          href |-> <<"/", "a">>]
CardD == [CardC EXCEPT !.href = <<"/", "b">>]
CardE == [CardC EXCEPT !.title = <<"d","e","v","\t"," ","o","p","s">>]
\* a listing whose href is not a URL the page's base can resolve
CardBad == [title |-> Ops, company |-> Acme, location |-> Santiago,
            href |-> <<"//[">>]
\* an element without title
CardNoTitle == [title |-> <<" ">>, company |-> Acme, location |-> Santiago, href |-> <<>>]

(***************************************************************************)
(* The job objects handed to saveJobs directly. A field a job lacks is     *)
(* <<>>.                                                                   *)
(***************************************************************************)
\* a job with every field
CompleteJob == [title |-> Dev, company |-> Acme, location |-> Santiago,
                applyLink |-> <<"https://example.com", "/", "1">>,
                externalId |-> <<"j","o","b","-","1">>,
                source |-> <<"T","e","s","t">>]
\* the same externalId with another title and link
ChangedJob == [CompleteJob EXCEPT !.title = DevOps,
                                  !.applyLink = <<"https://example.com", "/", "2">>]
\* another listing
OtherJob == [CompleteJob EXCEPT !.title = Ops, !.externalId = <<"j","o","b","-","2">>]
\* CompleteJob without the field f
JobWithout(f) == [CompleteJob EXCEPT ![f] = <<>>]
\* a title of white space only
BlankTitleJob == [CompleteJob EXCEPT !.title = <<" ", "\n">>]
RequiredFields == {"title", "company", "location", "applyLink", "source"}

RECURSIVE SeqsUpTo(_, _)
\* all sequences over S of length at most n
SeqsUpTo(S, n) ==
    IF n = 0 THEN {<<>>}
    ELSE LET shorter == SeqsUpTo(S, n - 1)
         IN  shorter \cup {Append(q, x) : q \in {t \in shorter : Len(t) = n - 1}, x \in S}

(***************************************************************************)
(* ScraperRegistry                                                         *)
(***************************************************************************)
\* registerDefaultScrapers
DefaultScrapers ==
    << [name |-> "oficina-trabajo-cei", cls |-> Oficina],
       [name |-> "linkedin", cls |-> LinkedIn] >>

\* getAvailableScrapers: the keys in insertion order
getAvailableScrapers(reg) == [i \in 1..Len(reg) |-> reg[i].name]

hasScraper(reg, name) == \E i \in 1..Len(reg) : reg[i].name = name

\* Map.get
ClassOf(reg, name) == reg[CHOOSE i \in 1..Len(reg) : reg[i].name = name].cls

\* register(name, ScraperClass): Map.set keeps the position of a key already present
register(reg, name, cls) ==
    IF hasScraper(reg, name)
    THEN [i \in 1..Len(reg) |-> IF reg[i].name = name THEN [name |-> name, cls |-> cls] ELSE reg[i]]
    ELSE Append(reg, [name |-> name, cls |-> cls])

\* Values register may be given besides the scraper classes: an arrow
\* function (typeof 'function', but new throws on it) and a string.
ArrowFunction == "() => {}"
NotAFunction == "not-a-class"

\* typeof ScraperClass === 'function'
IsFunction(ctor) == ctor \in {Oficina, LinkedIn, Base, ArrowFunction}

\* whether new ScraperClass(config) constructs an object
IsConstructor(ctor) == ctor \in {Oficina, LinkedIn, Base}

\* unregister(name): Map.delete
unregister(reg, name) == SelectSeq(reg, LAMBDA e : e.name # name)

(***************************************************************************)
(* Errors, as the values the code puts in Error.message                    *)
(***************************************************************************)
InvalidClassError(name) == [msg |-> "Invalid scraper class", name |-> name]
ScraperNotFoundError(name, available) ==
    [msg |-> "Scraper not found", name |-> name, available |-> available]
NotAConstructorError == [msg |-> "TypeError: ScraperClass is not a constructor"]
UnknownScraperError(name, available) ==
    [msg |-> "Unknown scraper", name |-> name, available |-> available]
TypeErrorNull == [msg |-> "TypeError: cannot read properties of null"]
NotImplementedError == [msg |-> "scrape() method must be implemented by child class"]
FetchFailedError(url, attempts, cause) ==
    [msg |-> "Failed to fetch", url |-> url, attempts |-> attempts, cause |-> cause]
TypeErrorNoLastError == [msg |-> "TypeError: cannot read properties of undefined"]
InvalidUrlError == [msg |-> "TypeError: Invalid URL"]

(***************************************************************************)
(* JobPortalScraper and the site scrapers: construction                    *)
(***************************************************************************)
\* The config object a site constructor hands to super(): its own default
\* where config lacks the key, config's value (the trailing ...config) otherwise.
SiteConfig(config, f, siteDefault) ==
    IF f \in DOMAIN config THEN config[f] ELSE siteDefault

\* this.maxRetries after construction
MaxRetriesOf(cls, config) ==
    CASE cls = Oficina  -> OrElse(SiteConfig(config, "maxRetries", OficinaMaxRetries), BaseMaxRetries)
      [] cls = LinkedIn -> OrElse(SiteConfig(config, "maxRetries", LinkedInMaxRetries), BaseMaxRetries)
      [] OTHER          -> OrElse(Prop(config, "maxRetries"), BaseMaxRetries)

\* this.delayBetweenRequests after construction
DelayOf(cls, config) ==
    CASE cls = Oficina  -> OrElse(SiteConfig(config, "delayBetweenRequests", OficinaDelay), BaseDelay)
      [] cls = LinkedIn -> OrElse(SiteConfig(config, "delayBetweenRequests", LinkedInDelay), BaseDelay)
      [] OTHER          -> OrElse(Prop(config, "delayBetweenRequests"), BaseDelay)

\* this.source
SourceOf(cls) ==
    CASE cls = Oficina  -> <<"O","f","i","c","i","n","a"," ","d","e"," ",
                             "T","r","a","b","a","j","o"," ","C","E","I">>
      [] cls = LinkedIn -> <<"L","i","n","k","e","d","I","n"," ","J","o","b","s">>
      [] OTHER          -> <<"U","n","k","n","o","w","n">>

\* this.baseUrl
BaseUrlOf(cls) ==
    CASE cls = Oficina  -> "https://www.oficinaempleo.cl"
      [] cls = LinkedIn -> "https://www.linkedin.com"
      [] OTHER          -> ""

\* A slot no runScraper call has taken yet.
\* the instance of a slot no run of the service holds
NoInstance == 0

IdleRun ==
    [pc |-> "idle", inst |-> NoInstance, caller |-> "none", scraperName |-> "", scrapeId |-> <<>>,
     cls |-> "", maxPages |-> 0, maxRetries |-> 0, delayBetweenRequests |-> 0,
     page |-> 0, attempt |-> 0, lastError |-> "", pending |-> {},
     jobs |-> <<>>, errors |-> <<>>,
     saveIdx |-> 0, saved |-> 0, failed |-> 0, duplicates |-> 0,
     log |-> <<>>, scrapeResult |-> [none |-> TRUE],
     outcome |-> "pending", value |-> [none |-> TRUE],
     clock |-> 0, cleaned |-> [none |-> TRUE], fetched |-> <<>>, arg |-> <<>>]

\* new ScraperClass(config): the instance fields, jobs and errors empty
NewScraper(run, cls, config) ==
    [run EXCEPT !.cls = cls,
                !.maxRetries = MaxRetriesOf(cls, config),
                !.delayBetweenRequests = DelayOf(cls, config),
                !.jobs = <<>>, !.errors = <<>>]

(***************************************************************************)
(* JobPortalScraper: cleaning, validation, saving                          *)
(***************************************************************************)
\* a || b on strings
OrText(a, b) == IF a # <<>> THEN a ELSE b

\* the slug generateExternalId and createExternalId make of a text
Slug(text) == ReplaceWhitespaceRuns(toLowerCase(text), "-")

\* Faulty variant of generateExternalId: the id ends with the title slug.
generateExternalIdWithoutTime(cls, job, clock) ==
    LET source      == Slug(SourceOf(cls))
        titleSlug   == OrText(substring(Slug(job.title), TitleSlugMax), Unknown)
        companySlug == OrText(substring(Slug(job.company), CompanySlugMax), Unknown)
    IN  source \o <<"-">> \o companySlug \o <<"-">> \o titleSlug

\* generateExternalId(job), Date.now() being clock
generateExternalId(cls, job, clock) ==
    LET source      == Slug(SourceOf(cls))
        titleSlug   == OrText(substring(Slug(job.title), TitleSlugMax), Unknown)
        companySlug == OrText(substring(Slug(job.company), CompanySlugMax), Unknown)
    IN  source \o <<"-">> \o companySlug \o <<"-">> \o titleSlug \o <<"-">> \o ToDecimal(clock)

\* cleanJobData(job), Date.now() being clock. The job objects of the model
\* have the fields the upsert is keyed on and the required ones; a field a
\* job lacks is <<>>.
cleanJobData(cls, job, clock) ==
    [title |-> cleanText(job.title), company |-> cleanText(job.company),
     location |-> cleanText(job.location),
     source |-> SourceOf(cls), applyLink |-> trim(job.applyLink),
     externalId |-> OrText(job.externalId, generateExternalId(cls, job, clock))]

\* Faulty variant of validateJobData: location is not required.
validateJobDataWithoutLocation(job) ==
    \A f \in {"title", "company", "applyLink", "source"} : job[f] # <<>>

\* validateJobData
validateJobData(job) ==
    \A f \in {"title", "company", "location", "applyLink", "source"} : job[f] # <<>>

(***************************************************************************)
(* The site scrapers: extraction of a page                                 *)
(***************************************************************************)
\* applyLink.startsWith('http')
StartsWithHttp(href) == href[1] \in HttpOrigins

\* new URL(href, baseUrl).toString() for an href that is not absolute: a
\* path is put behind the origin; "//[" names no host and makes URL throw.
ResolvesAgainstBase(href) == href[1] # "//["
ResolveUrl(href, baseUrl) == <<baseUrl>> \o href

\* Faulty variant of createExternalId: the title is made part of the id.
createExternalIdWithTitle(cls, title, company, url, clock) ==
    LET id == MatchId(url, {"/job/", "/id/", "id="})
    IN  IF id # <<>>
        THEN Slug(SourceOf(cls)) \o <<"-">> \o id \o <<"-">> \o Slug(title)
        ELSE generateExternalId(cls, [title |-> title, company |-> company], clock)

\* OficinaDeTrabajoCeiScraper.createExternalId(title, company, url)
createExternalId(cls, title, company, url, clock) ==
    LET id == MatchId(url, {"/job/", "/id/", "id="})
    IN  IF id # <<>>
        THEN Slug(SourceOf(cls)) \o <<"-">> \o id
        ELSE generateExternalId(cls, [title |-> title, company |-> company], clock)

\* The externalId LinkedInJobsScraper.extractJobData gives
LinkedInExternalId(cls, title, company, applyLink, clock) ==
    LET jobId == MatchId(applyLink, {"/jobs/view/"})
    IN  IF jobId # <<>>
        THEN <<"l","i","n","k","e","d","i","n","-">> \o jobId
        ELSE generateExternalId(cls, [title |-> title, company |-> company], clock)

\* extractJobData($, element) of either site scraper: the job, or the error
\* thrown ([thrown |-> error]).
extractJobData(cls, card, clock) ==
    LET title    == trim(card.title)
        company  == trim(card.company)
        location == trim(card.location)
        relative == card.href # <<>> /\ ~StartsWithHttp(card.href)
        link     == IF relative THEN ResolveUrl(card.href, BaseUrlOf(cls)) ELSE card.href
    IN  IF relative /\ ~ResolvesAgainstBase(card.href)
        THEN [thrown |-> InvalidUrlError]
        ELSE [title |-> title, company |-> company, location |-> location,
              applyLink |-> OrText(link, <<BaseUrlOf(cls)>>),
              externalId |-> IF cls = LinkedIn
                             THEN LinkedInExternalId(cls, title, company, link, clock)
                             ELSE createExternalId(cls, title, company, link, clock),
              source |-> SourceOf(cls)]

RECURSIVE ExtractFrom(_, _, _, _)
\* The each() loop of extractJobsFromPage from element i (1-based here, the
\* index the code reports is i - 1) on: [jobs, errors], errors being what
\* the loop pushed on this.errors.
ExtractFrom(cls, cards, i, clock) ==
    IF i > Len(cards) THEN [jobs |-> <<>>, errors |-> <<>>]
    ELSE LET rest == ExtractFrom(cls, cards, i + 1, clock)
             job  == extractJobData(cls, cards[i], clock)
         IN  IF "thrown" \in DOMAIN job
             THEN [jobs   |-> rest.jobs,
                   errors |-> IF cls = Oficina
                              THEN <<[index |-> i - 1, error |-> job.thrown]>> \o rest.errors
                              ELSE rest.errors]
             ELSE IF job.title # <<>> /\ job.company # <<>>
                  THEN [jobs |-> <<job>> \o rest.jobs, errors |-> rest.errors]
                  ELSE rest

\* extractJobsFromPage($)
extractJobsFromPage(cls, cards, clock) == ExtractFrom(cls, cards, 1, clock)

(***************************************************************************)
(* Dates. A Date is the day of its time value, counted from 1970-01-01,    *)
(* and the milliseconds into that day; valid is FALSE for an Invalid Date  *)
(* (time value NaN). Daylight saving shifts are left out.                  *)
(***************************************************************************)
InvalidDate == [valid |-> FALSE, days |-> 0, ms |-> 0]

\* new Date() when Date.now() is clock
NewDate(clock) == [valid |-> TRUE, days |-> 0, ms |-> clock]

\* date.setDate(date.getDate() - n); n is [nan |-> TRUE] for NaN
SetDateBack(date, n) ==
    IF "nan" \in DOMAIN n THEN InvalidDate
    ELSE [date EXCEPT !.days = @ - n.num]

\* the day number of the civil date y-m-d
DaysFromCivil(y, m, d) ==
    LET yy  == IF m <= 2 THEN y - 1 ELSE y
        era == yy \div 400
        yoe == yy - era * 400
        mp  == (m + 9) % 12
        doy == (153 * mp + 2) \div 5 + d - 1
        doe == yoe * 365 + yoe \div 4 - yoe \div 100 + doy
    IN  era * 146097 + doe - 719468

\* new Date(text) for the texts of the model: a date YYYY-MM-DD is midnight
\* UTC of that day, a text of letters only is an Invalid Date.
DateParse(text) ==
    IF /\ Len(text) = 10 /\ text[5] = "-" /\ text[8] = "-"
       /\ \A i \in {1, 2, 3, 4, 6, 7, 9, 10} : IsDigit(text[i])
    THEN [valid |-> TRUE,
          days |-> DaysFromCivil(ParseInt(SubSeq(text, 1, 4)),
                                 ParseInt(SubSeq(text, 6, 7)),
                                 ParseInt(SubSeq(text, 9, 10))),
          ms |-> 0]
    ELSE InvalidDate

\* the words (day|día|days|días) of the pattern, in its order
DayWords == <<<<"d","a","y">>, <<"d","í","a">>, <<"d","a","y","s">>, <<"d","í","a","s">>>>
AgoWord == <<"a","g","o">>
HaceWord == <<"h","a","c","e">>

\* whether (\d+)\s*(day|día|days|días)\s*ago matches at position i of s
DaysAgoAt(s, i) ==
    LET d == DigitRun(s, i)
        j == SkipSpace(s, i + Len(d))
    IN  /\ d # <<>>
        /\ \E k \in 1..4 :
              /\ MatchesAt(s, j, DayWords[k])
              /\ MatchesAt(s, SkipSpace(s, j + Len(DayWords[k])), AgoWord)

\* dateText.match(/(\d+)\s*(day|día|days|días)\s*ago|hace/i): no match, or
\* the first capture of the leftmost match (undefined when the alternative
\* hace matched)
DaysAgoMatch(dateText) ==
    LET s    == toLowerCase(dateText)
        hits == {i \in 1..Len(s) : DaysAgoAt(s, i) \/ MatchesAt(s, i, HaceWord)}
        at   == CHOOSE i \in hits : \A j \in hits : i <= j
    IN  IF hits = {} THEN [match |-> FALSE]
        ELSE IF DaysAgoAt(s, at) THEN [match |-> TRUE, group1 |-> DigitRun(s, at)]
        ELSE [match |-> TRUE]

\* parseInt(daysAgoMatch[1])
ParseGroup1(m) ==
    IF "group1" \in DOMAIN m THEN [num |-> ParseInt(m.group1)] ELSE [nan |-> TRUE]

\* OficinaDeTrabajoCeiScraper.extractPostedDate, text being the text of the
\* date node of the element (<<>>: no node) and clock Date.now()
extractPostedDate(text, clock) ==
    LET dateText == trim(text)
        m        == DaysAgoMatch(dateText)
    IN  IF dateText = <<>> THEN NewDate(clock)
        ELSE IF m.match THEN SetDateBack(NewDate(clock), ParseGroup1(m))
        ELSE IF DateParse(dateText).valid THEN DateParse(dateText)
        ELSE NewDate(clock)

\* BuildSearchUrl: the page parameter each site puts in the query string
buildSearchUrl(cls, page) ==
    IF cls = LinkedIn
    THEN [site |-> LinkedIn, param |-> "start", value |-> (page - 1) * LinkedInPageSize]
    ELSE [site |-> cls, param |-> "page", value |-> page]

\* The entries of a run's event log: a GET issued (n: the attempt), its
\* failure (cause: the transport error), its success (jobs: the listings
\* extracted from the page), a timer set (n: the milliseconds), an upsert
\* issued (n: the index of the job).
Event(ev, page, n) == [ev |-> ev, page |-> page, n |-> n, jobs |-> <<>>, cause |-> ""]
OkEvent(page, pageJobs) ==
    [ev |-> "ok", page |-> page, n |-> Len(pageJobs), jobs |-> pageJobs, cause |-> ""]
FailEvent(page, attempt, cause) ==
    [ev |-> "fail", page |-> page, n |-> attempt, jobs |-> <<>>, cause |-> cause]

\* scrape() returns normally: the async function's promise resolves
ScrapeReturn(run, stats) ==
    [run EXCEPT !.pc = "scrapeSettled",
                !.scrapeResult = [success |-> TRUE, jobs |-> run.jobs,
                                  stats |-> stats, errors |-> run.errors]]

\* the catch block of scrape()
ScrapeCatch(run, err) ==
    LET errs == Append(run.errors, [error |-> err])
    IN  [run EXCEPT !.pc = "scrapeSettled",
                    !.errors = errs,
                    !.scrapeResult =
                        [success |-> FALSE, jobs |-> run.jobs,
                         stats |-> [saved |-> 0, duplicates |-> 0, failed |-> 0, total |-> 0],
                         errors |-> errs]]

\* saveJobs returns: to scrape(), which returns in turn, or to the caller
\* that called saveJobs on the scraper itself.
SaveJobsReturn(run, stats) ==
    IF run.caller = "saveJobs"
    THEN [run EXCEPT !.pc = "done", !.outcome = "returned", !.value = stats]
    ELSE ScrapeReturn(run, stats)

RECURSIVE SaveFrom(_, _)
\* The loop of saveJobs from job i on, up to its next await: invalid jobs are
\* counted failed and skipped, the first valid one is cleaned (Date.now()
\* being run.clock) and sent to Job.updateOne.
SaveFrom(run, i) ==
    IF i > Len(run.jobs)
    THEN SaveJobsReturn(run, [saved |-> run.saved, duplicates |-> run.duplicates,
                              failed |-> run.failed, total |-> Len(run.jobs)])
    ELSE LET cleanedJob == cleanJobData(run.cls, run.jobs[i], run.clock)
         IN  IF ~validateJobData(cleanedJob)
             THEN SaveFrom([run EXCEPT !.failed = @ + 1], i + 1)
             ELSE [run EXCEPT !.pc = "upsert", !.saveIdx = i, !.cleaned = cleanedJob,
                              !.log = Append(@, Event("upsert", 0, i))]

\* saveJobs(): on this.jobs as scrape calls it, or on the jobs handed to it
saveJobs(run) ==
    IF Len(run.jobs) = 0
    THEN SaveJobsReturn(run, [saved |-> 0, failed |-> 0, duplicates |-> 0])
    ELSE SaveFrom([run EXCEPT !.saved = 0, !.failed = 0, !.duplicates = 0], 1)

(***************************************************************************)
(* JobPortalScraper.fetchPage and the page loop of scrape()                *)
(***************************************************************************)
\* delay(ms): the scrape is suspended on a timer
Delay(run, pc, ms) ==
    [run EXCEPT !.pc = pc, !.log = Append(@, Event("delay", run.page, ms))]

\* axios.get(url) for the given attempt: the request is in flight
IssueGet(run, page, attempt) ==
    [run EXCEPT !.pc = "get", !.page = page, !.attempt = attempt,
                !.pending = @ \cup {[url |-> buildSearchUrl(run.cls, page), attempt |-> attempt]},
                !.log = Append(@, Event("get", page, attempt))]

\* Faulty variant of RetryLoop: maxRetries counts the retries, not the attempts.
RetryLoopOneMore(run, attempt) ==
    IF attempt <= run.maxRetries + 1
    THEN IssueGet(run, run.page, attempt)
    ELSE ScrapeCatch(run, FetchFailedError(buildSearchUrl(run.cls, run.page),
                                           run.maxRetries, run.lastError))

\* Faulty variant of RetryLoop: a page that cannot be fetched ends the page
\* loop like an empty page, and what was accumulated is saved.
RetryLoopSavesOnExhaustion(run, attempt) ==
    IF attempt <= run.maxRetries
    THEN IssueGet(run, run.page, attempt)
    ELSE saveJobs(run)

\* The for loop of fetchPage at its test, with the given attempt number: the
\* next GET, or the throw that follows the loop.
RetryLoop(run, attempt) ==
    IF attempt <= run.maxRetries
    THEN IssueGet(run, run.page, attempt)
    ELSE ScrapeCatch(run, IF run.lastError = ""
                          THEN TypeErrorNoLastError
                          ELSE FetchFailedError(buildSearchUrl(run.cls, run.page),
                                                run.maxRetries, run.lastError))

\* fetchPage(url) up to its first await
fetchPage(run, page) ==
    RetryLoop([run EXCEPT !.page = page, !.lastError = ""], 1)

\* Used by the faulty variant of PageLoop below: a GET for every remaining page.
RECURSIVE IssueAllFrom(_, _)
IssueAllFrom(run, page) ==
    IF page > run.maxPages THEN run ELSE IssueAllFrom(IssueGet(run, page, 1), page + 1)

\* Faulty variant of PageLoop: the pages are requested all at once.
PageLoopAllAtOnce(run, page) ==
    IF page <= run.maxPages THEN IssueAllFrom(run, page) ELSE saveJobs(run)

\* One turn of the page loop: fetch the page while page <= maxPages, else
\* leave the loop and save.
PageLoop(run, page) ==
    IF page <= run.maxPages THEN fetchPage(run, page) ELSE saveJobs(run)

\* Faulty variant of AfterPage: an empty page does not break the loop.
AfterPageContinuesOnEmpty(run, pageJobs) ==
    LET r1 == [run EXCEPT !.log = Append(@, OkEvent(run.page, pageJobs)),
                          !.jobs = @ \o pageJobs]
    IN  IF r1.page < r1.maxPages
        THEN Delay(r1, "pageDelay", r1.delayBetweenRequests)
        ELSE PageLoop(r1, r1.page + 1)

\* Faulty variant of AfterPage: the wait is made after the last page too.
AfterPageWaitsAfterLast(run, pageJobs) ==
    LET r0 == [run EXCEPT !.log = Append(@, OkEvent(run.page, pageJobs))]
    IN  IF Len(pageJobs) = 0
        THEN saveJobs(r0)
        ELSE Delay([r0 EXCEPT !.jobs = @ \o pageJobs], "pageDelay",
                   r0.delayBetweenRequests)

\* The rest of the loop body once the page is fetched, parsed and extracted.
AfterPage(run, pageJobs) ==
    LET r0 == [run EXCEPT !.log = Append(@, OkEvent(run.page, pageJobs))]
    IN  IF Len(pageJobs) = 0
        THEN saveJobs(r0)
        ELSE LET r1 == [r0 EXCEPT !.jobs = @ \o pageJobs]
             IN  IF r1.page < r1.maxPages
                 THEN Delay(r1, "pageDelay", r1.delayBetweenRequests)
                 ELSE PageLoop(r1, r1.page + 1)

\* Faulty variant of BackoffMs: the same wait before every attempt.
BackoffMsConstant(run) == run.delayBetweenRequests

\* The wait before the next attempt
BackoffMs(run) == run.delayBetweenRequests * run.attempt

\* Faulty variant of AfterGetFailure: after the last attempt nothing goes on.
AfterGetFailureNeverSettles(run, cause) ==
    LET r0 == [run EXCEPT !.lastError = cause,
                          !.log = Append(@, FailEvent(run.page, run.attempt, cause))]
    IN  IF r0.attempt < r0.maxRetries
        THEN Delay(r0, "backoff", BackoffMs(r0))
        ELSE [r0 EXCEPT !.pc = "stuck"]

\* The catch block of fetchPage
AfterGetFailure(run, cause) ==
    LET r0 == [run EXCEPT !.lastError = cause,
                          !.log = Append(@, FailEvent(run.page, run.attempt, cause))]
    IN  IF r0.attempt < r0.maxRetries
        THEN Delay(r0, "backoff", BackoffMs(r0))
        ELSE RetryLoop(r0, r0.attempt + 1)

\* Faulty variant of NewInstance: the registry keeps one instance and hands
\* it out to every call.
NewInstanceKept(seq) == 1

\* The identity of the object `new ScraperClass(config)` makes in the call
\* numbered seq: a new one per call
NewInstance(seq) == seq

\* The slots after run has taken its step in slot r: jobs and errors are
\* fields of the scraper instance, so every slot that holds the same
\* instance sees them.
Put(rs, r, run) ==
    [q \in DOMAIN rs |->
        IF q = r THEN run
        ELSE IF run.inst # NoInstance /\ rs[q].inst = run.inst
             THEN [rs[q] EXCEPT !.jobs = run.jobs, !.errors = run.errors]
             ELSE rs[q]]

\* scrape(options) of a scraper instance, up to its first await
scrape(run, maxPages) ==
    IF run.cls = Base
    THEN [run EXCEPT !.pc = "scrapeSettled",
                     !.scrapeResult = [rejected |-> NotImplementedError]]
    ELSE PageLoop([run EXCEPT !.maxPages = maxPages, !.jobs = <<>>, !.errors = <<>>], 1)
(***************************************************************************)
(* ScraperService                                                          *)
(***************************************************************************)
\* generateScrapeId: name, Date.now() and the suffix made of the value
\* Math.random() returns (random stands for that value). Two calls for one
\* name in the same millisecond that draw the same value get the same id.
generateScrapeId(scraperName, clock, random) == <<scraperName, clock, random>>

\* activeScrapes.set / delete / has; startTime is new Date() at the set
ActiveSet(active, id, scraperName) ==
    {a \in active : a.id # id}
        \cup {[id |-> id, scraperName |-> scraperName, startTime |-> NewDate(now),
                status |-> "running"]}
ActiveDelete(active, id) == {a \in active : a.id # id}

\* this.activeScrapes.get(id)?.startTime || new Date()
StartTimeOr(active, id) ==
    IF \E a \in active : a.id = id
    THEN (CHOOSE a \in active : a.id = id).startTime
    ELSE NewDate(now)

\* this.activeScrapes.get(id)?.startTime?.getTime() || Date.now(); a time
\* value of 0 is falsy
StartMsOr(active, id) ==
    IF (\E a \in active : a.id = id)
            /\ (CHOOSE a \in active : a.id = id).startTime.ms # 0
    THEN (CHOOSE a \in active : a.id = id).startTime.ms
    ELSE now

\* The entry of the success path, built once activeScrapes is active
HistoryEntry(active, run, result) ==
    [id |-> run.scrapeId, scraperName |-> run.scraperName,
     startTime |-> StartTimeOr(active, run.scrapeId),
     endTime |-> NewDate(now),
     duration |-> now - StartMsOr(active, run.scrapeId),
     success |-> result.success, stats |-> result.stats,
     errorCount |-> Len(result.errors)]

\* The entry of the catch block
FailedEntry(run, err) ==
    [id |-> run.scrapeId, scraperName |-> run.scraperName,
     startTime |-> NewDate(now), endTime |-> NewDate(now), duration |-> 0,
     success |-> FALSE, error |-> err]
ActiveHas(active, id) == \E a \in active : a.id = id

\* The push of the success path, with its cap
PushHistory(history, entry) ==
    LET h == Append(history, entry)
    IN  IF Len(h) > HistoryCap THEN Tail(h) ELSE h

\* Faulty variant of PushFailedHistory: the catch path records nothing.
PushFailedHistoryDropped(history, entry) == history

\* The push of the catch path
PushFailedHistory(history, entry) == Append(history, entry)

\* The catch block of runScraper. st holds the service state being built:
\* [active, history, seq]; run is the call's slot.
RunScraperCatch(st, run, err) ==
    [active  |-> ActiveDelete(st.active, run.scrapeId),
     history |-> PushFailedHistory(st.history, FailedEntry(run, err)),
     seq     |-> st.seq,
     run     |-> [run EXCEPT !.pc = "done", !.outcome = "threw", !.value = err]]

\* Faulty variant of RunScraperThen: a result with success false is thrown to the
\* caller after the entry is recorded.
RunScraperThenThrowsOnFailure(st, run, result) ==
    LET active == {a \in st.active : a.id # run.scrapeId}
        entry == HistoryEntry(active, run, result)
        value == [scrapeId |-> run.scrapeId, scraperName |-> run.scraperName,
                  startTime |-> entry.startTime, endTime |-> entry.endTime,
                  duration |-> entry.duration,
                  success |-> result.success, jobs |-> result.jobs,
                  stats |-> result.stats, errors |-> result.errors,
                  errorCount |-> Len(result.errors)]
    IN  [active  |-> active,
         history |-> Append(st.history, entry),
         seq     |-> st.seq,
         run     |-> IF result.success
                     THEN [run EXCEPT !.pc = "done", !.outcome = "returned", !.value = value]
                     ELSE [run EXCEPT !.pc = "done", !.outcome = "threw",
                                      !.value = result.errors[Len(result.errors)].error]]

\* runScraper once the awaited scrape() has resolved with result
RunScraperThen(st, run, result) ==
    LET active == ActiveDelete(st.active, run.scrapeId)
        entry  == HistoryEntry(active, run, result)
    IN  [active  |-> active,
         history |-> PushHistory(st.history, entry),
         seq     |-> st.seq,
         run     |-> [run EXCEPT !.pc = "done", !.outcome = "returned",
                                 !.value = [scrapeId |-> run.scrapeId,
                                            scraperName |-> run.scraperName,
                                            startTime |-> entry.startTime,
                                            endTime |-> entry.endTime,
                                            duration |-> entry.duration,
                                            success |-> result.success,
                                            jobs |-> result.jobs,
                                            stats |-> result.stats,
                                            errors |-> result.errors,
                                            errorCount |-> Len(result.errors)]]]

\* Faulty variant of runScraper: the run is marked active before the name
\* is looked up.
runScraperMarksActiveFirst(reg, st, slot, scraperName, options, random) ==
    LET id   == generateScrapeId(scraperName, now, random)
        run0 == [slot EXCEPT !.scraperName = scraperName, !.scrapeId = id]
        st1  == [st EXCEPT !.seq = @ + 1, !.active = ActiveSet(@, id, scraperName)]
    IN  IF ~hasScraper(reg, scraperName)
        THEN [active |-> st1.active, history |-> st1.history, seq |-> st1.seq,
              run |-> [run0 EXCEPT !.pc = "done", !.outcome = "threw",
                                   !.value = UnknownScraperError(scraperName,
                                                 getAvailableScrapers(reg))]]
        ELSE IF IsNull(options)
             THEN RunScraperCatch(st1, run0, TypeErrorNull)
             ELSE IF ~IsConstructor(ClassOf(reg, scraperName))
             THEN RunScraperCatch(st1, run0, NotAConstructorError)
             ELSE IF IsNull(options.config)
             THEN RunScraperCatch(st1, run0, TypeErrorNull)
             ELSE [active |-> st1.active, history |-> st1.history, seq |-> st1.seq,
                   run |-> scrape([NewScraper(run0, ClassOf(reg, scraperName),
                                              options.config)
                                 EXCEPT !.inst = NewInstance(st.seq)],
                             options.maxPages)]

\* runScraper(scraperName, options) up to its first await, called with the
\* registry reg and the service state st; slot is IdleRun marked with the
\* caller, random the value Math.random() returns in generateScrapeId, and
\* st.seq the number of the call.
runScraper(reg, st, slot, scraperName, options, random) ==
    LET id   == generateScrapeId(scraperName, now, random)
        run0 == [slot EXCEPT !.scraperName = scraperName, !.scrapeId = id]
        st0  == [st EXCEPT !.seq = @ + 1]
    IN  IF ~hasScraper(reg, scraperName)
        THEN [active |-> st0.active, history |-> st0.history, seq |-> st0.seq,
              run |-> [run0 EXCEPT !.pc = "done", !.outcome = "threw",
                                   !.value = UnknownScraperError(scraperName,
                                                 getAvailableScrapers(reg))]]
        ELSE LET st1 == [st0 EXCEPT !.active = ActiveSet(@, id, scraperName)]
             IN  IF IsNull(options)
                 THEN RunScraperCatch(st1, run0, TypeErrorNull)
                 ELSE IF ~IsConstructor(ClassOf(reg, scraperName))
                 THEN RunScraperCatch(st1, run0, NotAConstructorError)
                 ELSE IF IsNull(options.config)
                 THEN RunScraperCatch(st1, run0, TypeErrorNull)
                 ELSE [active |-> st1.active, history |-> st1.history, seq |-> st1.seq,
                       run |-> scrape([NewScraper(run0, ClassOf(reg, scraperName),
                                                  options.config)
                                          EXCEPT !.inst = NewInstance(st.seq)],
                                      options.maxPages)]

RECURSIVE SumDurations(_)
\* history.reduce((sum, entry) => sum + (entry.duration || 0), 0)
SumDurations(history) ==
    IF history = <<>> THEN 0
    ELSE history[Len(history)].duration + SumDurations(SubSeq(history, 1, Len(history) - 1))

\* getStatistics().averageDuration as the fraction num / den; 0 for no entry
averageDuration(history) ==
    IF Len(history) > 0
    THEN [num |-> SumDurations(history), den |-> Len(history)]
    ELSE [num |-> 0, den |-> 1]

\* What runMultipleScrapers and runMultipleScrapersSequential put in the
\* slot of the config called name: the run's value, or the record built from
\* its error.
SlotResult(run, name) ==
    IF run.outcome = "threw"
    THEN [scraperName |-> name, success |-> FALSE, error |-> run.value]
    ELSE run.value
(***************************************************************************)
(* State helpers                                                           *)
(***************************************************************************)
Svc == [active |-> activeScrapes, history |-> scrapeHistory, seq |-> nextSeq]

\* Slots are taken in call order.
Used == {r \in DOMAIN runs : runs[r].pc # "idle"}
NextSlot == Cardinality(Used) + 1
\* The calls a behaviour may still make, those of the running sequential
\* batch set aside.
FreeSlots == Cardinality(DOMAIN runs) - Cardinality(Used) - Len(batch.rest)

\* names: the name of each config passed; slots: the slots of the configs
\* handed to runScraper so far; rest: the configs still to be.
NoBatch == [mode |-> "none", names |-> <<>>, slots |-> <<>>, rest |-> <<>>,
            results |-> <<>>, status |-> "none"]

NamesOf(configs) == [k \in 1..Len(configs) |-> configs[k].name]

\* The {name, options} entries a caller of the multi-run operations may pass
ConfigsOf(l) == [name : l.names, options : l.options]

RECURSIVE StartCallsStopOnThrow(_, _, _, _, _, _, _)
\* Faulty variant of StartCalls: a call that throws before its first await ends the map.
StartCallsStopOnThrow(reg, st, rs, configs, randoms, k, first) ==
    IF k > Len(configs)
    THEN [active |-> st.active, history |-> st.history, seq |-> st.seq, runs |-> rs]
    ELSE LET res == runScraper(reg, st, [IdleRun EXCEPT !.caller = "batch"],
                               configs[k].name, configs[k].options, randoms[k])
         IN  IF res.run.outcome = "threw"
             THEN [active |-> res.active, history |-> res.history, seq |-> res.seq,
                   runs |-> Put(rs, first + k, res.run)]
             ELSE StartCallsStopOnThrow(reg,
                        [active |-> res.active, history |-> res.history, seq |-> res.seq],
                        Put(rs, first + k, res.run),
                        configs, randoms, k + 1, first)

RECURSIVE StartCalls(_, _, _, _, _, _, _)
\* runScraper called for configs[k..] in turn (the map of runMultipleScrapers),
\* config k taking slot first + k and randoms[k] being the value Math.random()
\* returns in its call.
StartCalls(reg, st, rs, configs, randoms, k, first) ==
    IF k > Len(configs)
    THEN [active |-> st.active, history |-> st.history, seq |-> st.seq, runs |-> rs]
    ELSE LET res == runScraper(reg, st, [IdleRun EXCEPT !.caller = "batch"],
                               configs[k].name, configs[k].options, randoms[k])
         IN  StartCalls(reg,
                        [active |-> res.active, history |-> res.history, seq |-> res.seq],
                        Put(rs, first + k, res.run),
                        configs, randoms, k + 1, first)

(***************************************************************************)
(* Actions: the service                                                    *)
(***************************************************************************)
\* scraperService.runScraper(name, options), called directly
RunScraperCall ==
    /\ FreeSlots >= 1
    /\ \E name \in lim.names, options \in lim.options, random \in lim.randoms :
          LET res == runScraper(scrapers, Svc, [IdleRun EXCEPT !.caller = "direct"],
                                name, options, random)
          IN  /\ runs' = Put(runs, NextSlot, res.run)
              /\ activeScrapes' = res.active
              /\ scrapeHistory' = res.history
              /\ nextSeq' = res.seq
    /\ UNCHANGED <<scrapers, store, batch, now, lim>>

\* The continuation of runScraper when the awaited scrape() settles
RunScraperSettle ==
    \E r \in DOMAIN runs :
        /\ runs[r].pc = "scrapeSettled"
        /\ LET res == IF "rejected" \in DOMAIN runs[r].scrapeResult
                      THEN RunScraperCatch(Svc, runs[r], runs[r].scrapeResult.rejected)
                      ELSE RunScraperThen(Svc, runs[r], runs[r].scrapeResult)
           IN  /\ runs' = [runs EXCEPT ![r] = res.run]
               /\ activeScrapes' = res.active
               /\ scrapeHistory' = res.history
        /\ UNCHANGED <<scrapers, store, batch, nextSeq, now, lim>>

\* scraperService.runMultipleScrapers(configs): every run is started at once
RunMultipleScrapers ==
    /\ batch.mode = "none"
    /\ \E configs \in SeqsUpTo(ConfigsOf(lim), FreeSlots) :
          /\ Len(configs) >= 1
          /\ \E randoms \in [1..Len(configs) -> lim.randoms] :
             LET first == Cardinality(Used)
                 res   == StartCalls(scrapers, Svc, runs, configs, randoms, 1, first)
             IN  /\ runs' = res.runs
                 /\ activeScrapes' = res.active
                 /\ scrapeHistory' = res.history
                 /\ nextSeq' = res.seq
                 /\ batch' = [mode |-> "parallel", names |-> NamesOf(configs),
                              slots |-> [k \in 1..Len(configs) |-> first + k],
                              rest |-> <<>>, results |-> <<>>, status |-> "running"]
    /\ UNCHANGED <<scrapers, store, now, lim>>

\* Promise.all resolves once every mapped promise has settled
ParallelResolve ==
    /\ batch.mode = "parallel"
    /\ batch.status = "running"
    /\ \A k \in 1..Len(batch.slots) : runs[batch.slots[k]].pc = "done"
    /\ batch' = [batch EXCEPT !.status = "resolved",
                              !.results = [k \in 1..Len(batch.slots) |->
                                              SlotResult(runs[batch.slots[k]], batch.names[k])]]
    /\ UNCHANGED <<scrapers, activeScrapes, scrapeHistory, store, runs, nextSeq, now, lim>>

\* scraperService.runMultipleScrapersSequential(configs), up to its first await
RunMultipleScrapersSequential ==
    /\ batch.mode = "none"
    /\ \E configs \in SeqsUpTo(ConfigsOf(lim), FreeSlots) :
          /\ Len(configs) >= 1
          /\ \E random \in lim.randoms :
             LET res == runScraper(scrapers, Svc, [IdleRun EXCEPT !.caller = "batch"],
                                   configs[1].name, configs[1].options, random)
             IN  /\ runs' = Put(runs, NextSlot, res.run)
                 /\ activeScrapes' = res.active
                 /\ scrapeHistory' = res.history
                 /\ nextSeq' = res.seq
                 /\ batch' = [mode |-> "sequential", names |-> NamesOf(configs),
                              slots |-> <<NextSlot>>, rest |-> Tail(configs),
                              results |-> <<>>, status |-> "running"]
    /\ UNCHANGED <<scrapers, store, now, lim>>

\* Faulty variant of SequentialContinue: the loop does not await the run it started.
SequentialContinueNoAwait ==
    /\ batch.mode = "sequential"
    /\ batch.status = "running"
    /\ batch.rest # <<>>
    /\ \E random \in lim.randoms :
       LET k   == Len(batch.slots)
           res == runScraper(scrapers, Svc, [IdleRun EXCEPT !.caller = "batch"],
                             Head(batch.rest).name, Head(batch.rest).options, random)
       IN  /\ runs' = Put(runs, NextSlot, res.run)
           /\ activeScrapes' = res.active
           /\ scrapeHistory' = res.history
           /\ nextSeq' = res.seq
           /\ batch' = [batch EXCEPT !.results = Append(@, SlotResult(runs[batch.slots[k]],
                                                                      batch.names[k])),
                                     !.slots = Append(@, NextSlot),
                                     !.rest = Tail(@)]
    /\ UNCHANGED <<scrapers, store, now, lim>>

\* The loop of runMultipleScrapersSequential resumes when the awaited run
\* settles: it records the result and calls runScraper for the next config,
\* or returns the results.
SequentialContinue ==
    /\ batch.mode = "sequential"
    /\ batch.status = "running"
    /\ runs[batch.slots[Len(batch.slots)]].pc = "done"
    /\ LET k       == Len(batch.slots)
           results == Append(batch.results, SlotResult(runs[batch.slots[k]], batch.names[k]))
       IN  IF batch.rest = <<>>
           THEN /\ batch' = [batch EXCEPT !.results = results, !.status = "resolved"]
                /\ UNCHANGED <<runs, activeScrapes, scrapeHistory, nextSeq>>
           ELSE \E random \in lim.randoms :
                LET res == runScraper(scrapers, Svc, [IdleRun EXCEPT !.caller = "batch"],
                                      Head(batch.rest).name, Head(batch.rest).options,
                                      random)
                IN  /\ runs' = Put(runs, NextSlot, res.run)
                    /\ activeScrapes' = res.active
                    /\ scrapeHistory' = res.history
                    /\ nextSeq' = res.seq
                    /\ batch' = [batch EXCEPT !.results = results,
                                              !.slots = Append(@, NextSlot),
                                              !.rest = Tail(@)]
    /\ UNCHANGED <<scrapers, store, now, lim>>

\* scraperRegistry.register(name, ScraperClass) with a function: a class, or
\* a function that `new` cannot construct
RegisterScraper ==
    /\ \E name \in lim.regNames, cls \in lim.regClasses :
          scrapers' = register(scrapers, name, cls)
    /\ UNCHANGED <<activeScrapes, scrapeHistory, store, runs, batch, nextSeq, now, lim>>

(***************************************************************************)
(* Actions: the continuations of a scrape                                  *)
(***************************************************************************)
\* axios.get resolves: fetchPage returns, the page is parsed and its listing
\* elements extracted
GetSucceeds ==
    \E r \in DOMAIN runs :
        /\ runs[r].pc = "get"
        /\ \E req \in runs[r].pending, cards \in lim.pages :
              LET ext == extractJobsFromPage(runs[r].cls, cards, now)
              IN  runs' = Put(runs, r,
                              AfterPage([runs[r] EXCEPT !.pending = @ \ {req},
                                                        !.clock = now,
                                                        !.fetched = Append(@, [cards |-> cards, at |-> now]),
                                                        !.errors = @ \o ext.errors],
                                        ext.jobs))
        /\ UNCHANGED <<scrapers, activeScrapes, scrapeHistory, store, batch, nextSeq, now, lim>>

\* axios.get rejects (timeout, connection error, non-2xx)
GetFails ==
    \E r \in DOMAIN runs :
        /\ runs[r].pc = "get"
        /\ \E req \in runs[r].pending, cause \in lim.errs :
              runs' = Put(runs, r,
                          AfterGetFailure([runs[r] EXCEPT !.pending = @ \ {req}], cause))
        /\ UNCHANGED <<scrapers, activeScrapes, scrapeHistory, store, batch, nextSeq, now, lim>>

\* The retry timer fires: the for loop of fetchPage goes on with attempt + 1
BackoffElapsed ==
    \E r \in DOMAIN runs :
        /\ runs[r].pc = "backoff"
        /\ runs' = Put(runs, r, RetryLoop(runs[r], runs[r].attempt + 1))
        /\ UNCHANGED <<scrapers, activeScrapes, scrapeHistory, store, batch, nextSeq, now, lim>>

\* The inter-page timer fires: the page loop goes on with page + 1
PageDelayElapsed ==
    \E r \in DOMAIN runs :
        /\ runs[r].pc = "pageDelay"
        /\ runs' = Put(runs, r, PageLoop([runs[r] EXCEPT !.clock = now],
                                          runs[r].page + 1))
        /\ UNCHANGED <<scrapers, activeScrapes, scrapeHistory, store, batch, nextSeq, now, lim>>

\* Job.updateOne({externalId}, {$set: job}, {upsert: true}) on the collection
updateOne(docs, job) ==
    IF \E d \in docs : d.externalId = job.externalId
    THEN [docs |-> {d \in docs : d.externalId # job.externalId} \cup {job},
          result |-> [upsertedCount |-> 0, matchedCount |-> 1]]
    ELSE [docs |-> docs \cup {job},
          result |-> [upsertedCount |-> 1, matchedCount |-> 0]]

\* Faulty variant of AfterUpsert: a matched record is counted as saved.
AfterUpsertCountsSaved(run, result) ==
    SaveFrom([run EXCEPT !.saved = @ + 1], run.saveIdx + 1)

\* saveJobs after the awaited updateOne resolved with result
AfterUpsert(run, result) ==
    SaveFrom([run EXCEPT !.saved = IF result.upsertedCount > 0 THEN @ + 1 ELSE @,
                         !.duplicates = IF result.upsertedCount > 0 THEN @
                                        ELSE IF result.matchedCount > 0 THEN @ + 1 ELSE @],
             run.saveIdx + 1)

\* Faulty variant of AfterUpsertError: the rejected write ends the loop.
AfterUpsertErrorStops(run, err) ==
    SaveJobsReturn([run EXCEPT !.errors = Append(@, [job |-> run.jobs[run.saveIdx],
                                                     error |-> err])],
                   [saved |-> run.saved, duplicates |-> run.duplicates,
                    failed |-> run.failed + 1, total |-> Len(run.jobs)])

\* the catch block of saveJobs
AfterUpsertError(run, err) ==
    SaveFrom([run EXCEPT !.failed = @ + 1,
                         !.errors = Append(@, [job |-> run.jobs[run.saveIdx], error |-> err])],
             run.saveIdx + 1)

\* The store applies the upsert and answers
UpsertApplied ==
    \E r \in DOMAIN runs :
        /\ runs[r].pc = "upsert"
        /\ LET up == updateOne(store, runs[r].cleaned)
           IN  /\ store' = up.docs
               /\ runs' = Put(runs, r,
                              AfterUpsert([runs[r] EXCEPT !.clock = now], up.result))
        /\ UNCHANGED <<scrapers, activeScrapes, scrapeHistory, batch, nextSeq, now, lim>>

\* The store rejects the write
UpsertRejected ==
    \E r \in DOMAIN runs :
        /\ runs[r].pc = "upsert"
        /\ \E err \in lim.storeErrs :
              runs' = Put(runs, r,
                          AfterUpsertError([runs[r] EXCEPT !.clock = now], [msg |-> err]))
        /\ UNCHANGED <<scrapers, activeScrapes, scrapeHistory, store, batch, nextSeq, now, lim>>

\* The store has looked for a record with the externalId of the upsert and
\* found none: it goes on to insert one. Another upsert may be served in
\* between.
UpsertFindsNone ==
    \E r \in DOMAIN runs :
        /\ runs[r].pc = "upsert"
        /\ ~\E d \in store : d.externalId = runs[r].cleaned.externalId
        /\ runs' = Put(runs, r, [runs[r] EXCEPT !.pc = "insert"])
        /\ UNCHANGED <<scrapers, activeScrapes, scrapeHistory, store, batch, nextSeq, now, lim>>

\* The insert of an upsert that found no record: the unique index on
\* externalId still holds no such key, the record is inserted and the store
\* answers upsertedCount 1
InsertApplied ==
    \E r \in DOMAIN runs :
        /\ runs[r].pc = "insert"
        /\ ~\E d \in store : d.externalId = runs[r].cleaned.externalId
        /\ store' = store \cup {runs[r].cleaned}
        /\ runs' = Put(runs, r,
                       AfterUpsert([runs[r] EXCEPT !.clock = now],
                                   [upsertedCount |-> 1, matchedCount |-> 0]))
        /\ UNCHANGED <<scrapers, activeScrapes, scrapeHistory, batch, nextSeq, now, lim>>

\* The insert of an upsert that found no record, after another upsert has
\* inserted a record with that externalId: the unique index refuses the
\* key, the store answers with the duplicate-key error and writes nothing
InsertDuplicateKey ==
    \E r \in DOMAIN runs :
        /\ runs[r].pc = "insert"
        /\ \E d \in store : d.externalId = runs[r].cleaned.externalId
        /\ runs' = Put(runs, r,
                       AfterUpsertError([runs[r] EXCEPT !.clock = now],
                                        [msg |-> "E11000"]))
        /\ UNCHANGED <<scrapers, activeScrapes, scrapeHistory, store, batch, nextSeq, now, lim>>

\* The store applies the upsert and answers without counts (upsertedCount 0
\* and matchedCount 0, as an unacknowledged write is answered)
UpsertUncounted ==
    \E r \in DOMAIN runs :
        /\ runs[r].pc = "upsert"
        /\ store' = updateOne(store, runs[r].cleaned).docs
        /\ runs' = Put(runs, r,
                       AfterUpsert([runs[r] EXCEPT !.clock = now],
                                   [upsertedCount |-> 0, matchedCount |-> 0]))
        /\ UNCHANGED <<scrapers, activeScrapes, scrapeHistory, batch, nextSeq, now, lim>>

\* scraper.saveJobs(jobs) called on a scraper instance of its own
SaveJobsCall ==
    /\ FreeSlots >= 1
    /\ \E cls \in lim.saveClasses, jobs \in lim.saveJobs :
          runs' = [runs EXCEPT ![NextSlot] =
                      saveJobs([NewScraper([IdleRun EXCEPT !.caller = "saveJobs",
                                                           !.clock = now],
                                           cls, [userAgent |-> "ua"])
                                  EXCEPT !.jobs = jobs])]
    /\ UNCHANGED <<scrapers, activeScrapes, scrapeHistory, store, batch, nextSeq, now, lim>>

(***************************************************************************)
(* The aggregator fetcher: fetchAndStoreJobs                                *)
(***************************************************************************)
UnknownSource == <<"U","n","k","n","o","w","n">>

\* the jobs_results entries of the responses of the model; a property the
\* entry lacks is <<>>
RawA ==
    [title |-> Dev, company_name |-> Acme, location |-> Santiago, description |-> <<>>,
     via |-> <<"L","i","n","k","e","d","I","n">>, related_links |-> <<>>,
     share_link |-> <<"https://example.com", "/", "1">>,
     job_id |-> <<"j","o","b","-","1">>, extensions |-> <<>>]
RawA2 ==
    [RawA EXCEPT !.title = DevOps, !.via = <<>>,
                 !.related_links = << <<"https://example.com", "/", "a">> >>]
RawB == [RawA EXCEPT !.title = Ops, !.job_id = <<"j","o","b","-","2">>]

\* the values of response.data.jobs_results (<<>> also for a response
\* without the property)
ApiResponses == {<<>>, <<RawA>>, <<RawA2>>, <<RawB, RawA>>, <<RawA, RawA2>>}
ApiErrors == {"API Error"}

\* normalizeJob(rawJob)
normalizeJob(rawJob) ==
    [title |-> rawJob.title,
     company |-> rawJob.company_name,
     location |-> rawJob.location,
     description |-> rawJob.description,
     source |-> OrText(rawJob.via, UnknownSource),
     applyLink |-> IF rawJob.related_links # <<>> /\ rawJob.related_links[1] # <<>>
                   THEN rawJob.related_links[1]
                   ELSE rawJob.share_link,
     externalId |-> rawJob.job_id,
     tags |-> rawJob.extensions]

\* Faulty variant of FetchReturn: the call returns the number of new jobs.
FetchReturnNewCount(run) ==
    [run EXCEPT !.pc = "done", !.outcome = "returned", !.value = [returned |-> run.saved]]

\* return rawJobs.length
FetchReturn(run) ==
    [run EXCEPT !.pc = "done", !.outcome = "returned",
                !.value = [returned |-> Len(run.jobs)]]

\* The for loop of fetchAndStoreJobs at job i, up to its await
FetchLoop(run, i) ==
    IF i > Len(run.jobs) THEN FetchReturn(run)
    ELSE [run EXCEPT !.pc = "fetchUpsert", !.saveIdx = i,
                     !.cleaned = normalizeJob(run.jobs[i]),
                     !.log = Append(@, Event("upsert", 0, i))]

\* the catch block of fetchAndStoreJobs: the error is thrown again
FetchCatch(run, err) ==
    [run EXCEPT !.pc = "done", !.outcome = "threw", !.value = err]

\* fetchAndStoreJobs(query) up to the awaited axios.get; the slot keeps the
\* calls that had settled when this one began
FetchAndStoreJobsCall ==
    /\ FreeSlots >= 1
    /\ runs' = [runs EXCEPT ![NextSlot] =
                   [IdleRun EXCEPT !.caller = "fetchAndStoreJobs", !.pc = "apiGet",
                                   !.clock = now,
                                   !.arg = [before |-> {r \in DOMAIN runs :
                                                           runs[r].pc = "done"}],
                                   !.log = <<Event("get", 1, 1)>>]]
    /\ UNCHANGED <<scrapers, activeScrapes, scrapeHistory, store, batch, nextSeq, now, lim>>

\* The API answers: the jobs of the response are upserted one by one
ApiResponds ==
    \E r \in DOMAIN runs :
        /\ runs[r].pc = "apiGet"
        /\ \E rawJobs \in ApiResponses :
              runs' = [runs EXCEPT ![r] =
                          FetchLoop([runs[r] EXCEPT !.jobs = rawJobs, !.saved = 0], 1)]
        /\ UNCHANGED <<scrapers, activeScrapes, scrapeHistory, store, batch, nextSeq, now, lim>>

\* The API request fails
ApiFails ==
    \E r \in DOMAIN runs :
        /\ runs[r].pc = "apiGet"
        /\ \E cause \in ApiErrors :
              runs' = [runs EXCEPT ![r] = FetchCatch(runs[r], [msg |-> cause])]
        /\ UNCHANGED <<scrapers, activeScrapes, scrapeHistory, store, batch, nextSeq, now, lim>>

\* The store applies the upsert of the fetcher and answers
FetchUpsertApplied ==
    \E r \in DOMAIN runs :
        /\ runs[r].pc = "fetchUpsert"
        /\ LET up == updateOne(store, runs[r].cleaned)
           IN  /\ store' = up.docs
               /\ runs' = [runs EXCEPT ![r] =
                              FetchLoop([runs[r] EXCEPT
                                            !.saved = IF up.result.upsertedCount > 0
                                                      THEN @ + 1 ELSE @],
                                        runs[r].saveIdx + 1)]
        /\ UNCHANGED <<scrapers, activeScrapes, scrapeHistory, batch, nextSeq, now, lim>>

\* The store rejects the write of the fetcher
FetchUpsertRejected ==
    \E r \in DOMAIN runs :
        /\ runs[r].pc = "fetchUpsert"
        /\ \E err \in lim.storeErrs :
              runs' = [runs EXCEPT ![r] = FetchCatch(runs[r], [msg |-> err])]
        /\ UNCHANGED <<scrapers, activeScrapes, scrapeHistory, store, batch, nextSeq, now, lim>>

\* the date texts the date specification gives to extractPostedDate
DaysAgoText(n) == ToDecimal(n) \o <<" ","d","a","y","s"," ","a","g","o">>
HaceDiasText(n) == <<"h","a","c","e"," ">> \o ToDecimal(n) \o <<" ","d","í","a","s">>
DateTexts ==
    {DaysAgoText(n) : n \in 1..MaxDays} \cup {HaceDiasText(n) : n \in 1..MaxDays}
       \cup {<<>>, <<"s","o","o","n">>, <<"1","2"," ","D","a","y","s"," ","A","g","o">>,
             <<"2","0","2","4","-","0","1","-","1","5">>}

\* scraper.extractPostedDate($, element) called on an Oficina scraper
ExtractPostedDateCall ==
    /\ FreeSlots >= 1
    /\ \E text \in DateTexts :
          runs' = [runs EXCEPT ![NextSlot] =
                      [NewScraper([IdleRun EXCEPT !.caller = "extractPostedDate",
                                                  !.clock = now],
                                  Oficina, [userAgent |-> "ua"])
                         EXCEPT !.arg = text, !.pc = "done", !.outcome = "returned",
                                !.value = extractPostedDate(text, now)]]
    /\ UNCHANGED <<scrapers, activeScrapes, scrapeHistory, store, batch, nextSeq, now, lim>>

\* the names and values the registry specification passes
RegistryNames == {"linkedin", "generic"}
RegistryValues == {Base, ArrowFunction, NotAFunction}

\* scraperRegistry.register(name, ScraperClass) with any value: the call
\* throws on a value that is no function and sets the entry otherwise
RegisterCall ==
    \E name \in RegistryNames, ctor \in RegistryValues :
        IF IsFunction(ctor)
        THEN /\ scrapers' = register(scrapers, name, ctor)
             /\ UNCHANGED <<activeScrapes, scrapeHistory, store, runs, batch, nextSeq,
                            now, lim>>
        ELSE /\ FreeSlots >= 1
             /\ runs' = [runs EXCEPT ![NextSlot] =
                            [IdleRun EXCEPT !.caller = "register", !.pc = "done",
                                            !.arg = [name |-> name, ctor |-> ctor],
                                            !.outcome = "threw",
                                            !.value = InvalidClassError(name)]]
             /\ UNCHANGED <<scrapers, activeScrapes, scrapeHistory, store, batch, nextSeq,
                            now, lim>>

\* scraperRegistry.unregister(name)
UnregisterCall ==
    /\ \E name \in RegistryNames :
          /\ hasScraper(scrapers, name)
          /\ scrapers' = unregister(scrapers, name)
    /\ UNCHANGED <<activeScrapes, scrapeHistory, store, runs, batch, nextSeq, now, lim>>

\* getScraper(name, config)
getScraper(reg, name, config) ==
    IF ~hasScraper(reg, name)
    THEN [thrown |-> ScraperNotFoundError(name, getAvailableScrapers(reg))]
    ELSE IF ~IsConstructor(ClassOf(reg, name))
         THEN [thrown |-> NotAConstructorError]
         ELSE [instance |-> NewScraper(IdleRun, ClassOf(reg, name), config)]

\* scraperRegistry.getScraper(name) called directly; the slot keeps the name
\* and the names registered at the call
GetScraperCall ==
    /\ FreeSlots >= 1
    /\ \E name \in RegistryNames :
          LET res == getScraper(scrapers, name, [userAgent |-> "ua"])
              slot == [IdleRun EXCEPT !.caller = "getScraper", !.pc = "done",
                                      !.arg = [name |-> name,
                                               available |-> getAvailableScrapers(scrapers)]]
          IN  runs' = [runs EXCEPT ![NextSlot] =
                          IF "thrown" \in DOMAIN res
                          THEN [slot EXCEPT !.outcome = "threw", !.value = res.thrown]
                          ELSE [slot EXCEPT !.outcome = "returned", !.value = res.instance]]
    /\ UNCHANGED <<scrapers, activeScrapes, scrapeHistory, store, batch, nextSeq, now, lim>>

\* array.slice(start): a negative start counts from the end, and -0 is 0
Slice(arr, start) ==
    LET from == IF start < 0
                THEN (IF Len(arr) + start > 0 THEN Len(arr) + start ELSE 0)
                ELSE (IF start < Len(arr) THEN start ELSE Len(arr))
    IN  SubSeq(arr, from + 1, Len(arr))

\* array.reverse()
ReverseOf(arr) == [i \in 1..Len(arr) |-> arr[Len(arr) + 1 - i]]

\* the default of getScrapeHistory(limit = 20)
DefaultLimit == 20

\* the limits the history is asked with; NoLimit is the call without argument
NoLimit == [given |-> FALSE]
MaxLimit == 3
HistoryLimits == {NoLimit} \cup {[given |-> TRUE, limit |-> n] : n \in 0..MaxLimit}

\* the value of the parameter limit
LimitOf(arg) == IF arg.given THEN arg.limit ELSE DefaultLimit

\* scraperService.getScrapeHistory(limit)
getScrapeHistory(history, arg) == ReverseOf(Slice(history, 0 - LimitOf(arg)))

\* getScrapeHistory called; the slot keeps the limit, the history at the call
\* and the array returned
GetScrapeHistoryCall ==
    /\ FreeSlots >= 1
    /\ \E arg \in HistoryLimits :
          runs' = [runs EXCEPT ![NextSlot] =
                      [IdleRun EXCEPT !.caller = "getScrapeHistory", !.pc = "done",
                                      !.arg = [limit |-> arg, history |-> scrapeHistory],
                                      !.outcome = "returned",
                                      !.value = [entries |-> getScrapeHistory(scrapeHistory, arg)]]]
    /\ UNCHANGED <<scrapers, activeScrapes, scrapeHistory, store, batch, nextSeq, now, lim>>

\* scraperService.clearHistory() (DELETE /history): the history becomes a
\* new empty array; the runs in flight and the active map are left alone
ClearHistoryCall ==
    /\ scrapeHistory' = <<>>
    /\ UNCHANGED <<scrapers, activeScrapes, store, runs, batch, nextSeq, now, lim>>

\* A millisecond passes
Tick ==
    /\ now < MaxClock
    /\ now' = now + 1
    /\ UNCHANGED <<scrapers, activeScrapes, scrapeHistory, store, runs, batch, nextSeq, lim>>

(***************************************************************************)
(* Specifications                                                          *)
(***************************************************************************)
\* The entry runScraper('linkedin', {maxPages: 0}) leaves in the history;
\* the earlier runs drew values of Math.random() no later call draws
EarlierEntry(i) ==
    [id |-> generateScrapeId("linkedin", 0, 0 - i), scraperName |-> "linkedin",
     startTime |-> NewDate(0), endTime |-> NewDate(0), duration |-> 0, success |-> TRUE,
     stats |-> [saved |-> 0, failed |-> 0, duplicates |-> 0], errorCount |-> 0]

\* The service with n completed runs behind it
InitWith(l, n) ==
    /\ scrapers = DefaultScrapers
    /\ activeScrapes = {}
    /\ scrapeHistory = [i \in 1..n |-> EarlierEntry(i)]
    /\ store = {}
    /\ runs = [r \in 1..l.runs |-> IdleRun]
    /\ batch = NoBatch
    /\ nextSeq = n + 1
    /\ now = 0
    /\ lim = l

\* The inputs of the service specification
SvcLim ==
    [runs |-> MaxRuns,
     names |-> {"linkedin", "generic"},
     randoms |-> {1, 2},
     options |-> {[maxPages |-> 1, config |-> Null],
                  [maxPages |-> 1, config |-> [maxRetries |-> 1]]},
     pages |-> {<<>>, <<CardA>>},
     errs |-> {"timeout"},
     storeErrs |-> {"E11000"},
     regNames |-> {"generic", "linkedin"},
     regClasses |-> {Base, ArrowFunction},
     saveClasses |-> {},
     saveJobs |-> {}]

\* The inputs of the scrape specification: one run, looked at closely
ScrLim ==
    [runs |-> 1,
     names |-> {"oficina-trabajo-cei", "linkedin"},
     randoms |-> {1},
     options |-> [maxPages : 0..MaxPagesScr,
                  config : {[userAgent |-> "ua"],
                            [maxRetries |-> 1, delayBetweenRequests |-> 500]}
                           \cup {[maxRetries |-> k] : k \in 0..MaxRetriesCfg}],
     pages |-> {<<>>, <<CardA>>, <<CardB>>},
     errs |-> {"timeout", "reset"},
     storeErrs |-> {"E11000"},
     regNames |-> {},
     regClasses |-> {},
     saveClasses |-> {},
     saveJobs |-> {}]

\* The inputs of the save specification: saveJobs called on scraper instances
SaveLim ==
    [runs |-> MaxRuns,
     names |-> {},
     randoms |-> {1},
     options |-> {},
     pages |-> {},
     errs |-> {},
     storeErrs |-> {"E11000"},
     regNames |-> {},
     regClasses |-> {},
     saveClasses |-> {Oficina, LinkedIn},
     saveJobs |-> {<<>>, <<CompleteJob>>, <<ChangedJob>>, <<CompleteJob, ChangedJob>>,
                   <<OtherJob, CompleteJob>>, <<BlankTitleJob>>,
                   <<JobWithout("externalId")>>, <<JobWithout("location"), OtherJob>>}
                  \cup {<<JobWithout(f)>> : f \in RequiredFields}]

\* The inputs of the listing specification: one-page scrapes of both sites,
\* in flight together, over pages of several listing elements
ListLim ==
    [runs |-> MaxRuns,
     names |-> {"oficina-trabajo-cei", "linkedin"},
     randoms |-> {1},
     options |-> {[maxPages |-> 1, config |-> [maxRetries |-> 1]]},
     pages |-> {<<CardC, CardD>>, <<CardE>>, <<CardBad, CardA>>},
     errs |-> {},
     storeErrs |-> {},
     regNames |-> {},
     regClasses |-> {},
     saveClasses |-> {},
     saveJobs |-> {}]

\* The inputs of the repeated-scrape specification: the LinkedIn scraper run
\* again and again on one-page results while the clock advances
AgainLim ==
    [runs |-> MaxRuns,
     names |-> {"linkedin"},
     randoms |-> {1},
     options |-> {[maxPages |-> 1, config |-> [maxRetries |-> 1]]},
     pages |-> {<<CardA>>, <<CardC>>},
     errs |-> {},
     storeErrs |-> {},
     regNames |-> {},
     regClasses |-> {},
     saveClasses |-> {},
     saveJobs |-> {}]

\* The runs of the termination specification
TermRuns == 2

\* The pages and attempts of a scrape that uses several of both
TermPages == 2
TermRetries == 2

\* The inputs of the termination specification: two runs of a site scraper
\* through the service, of one page with the most attempts or of several
\* pages with several attempts each; every request and every store operation
\* may return or fail
TermLim ==
    [runs |-> TermRuns,
     names |-> {"oficina-trabajo-cei"},
     randoms |-> {1},
     options |-> {[maxPages |-> 1, config |-> [maxRetries |-> MaxRetriesCfg]],
                  [maxPages |-> TermPages, config |-> [maxRetries |-> TermRetries]]},
     pages |-> {<<>>, <<CardA>>},
     errs |-> {"timeout"},
     storeErrs |-> {"E11000"},
     regNames |-> {},
     regClasses |-> {},
     saveClasses |-> {},
     saveJobs |-> {}]

Init == InitWith(SvcLim, 0)

\* The service specification: several runs in flight, each of one page and
\* one attempt, so that no run of it waits on a timer (SpecScrape has those).
Next ==
    \/ RunScraperCall
    \/ RunScraperSettle
    \/ RunMultipleScrapers
    \/ ParallelResolve
    \/ RunMultipleScrapersSequential
    \/ SequentialContinue
    \/ RegisterScraper
    \/ GetSucceeds
    \/ GetFails
    \/ UpsertApplied
    \/ UpsertRejected

Spec == Init /\ [][Next]_vars

\* The service after HistoryCap - 1 or HistoryCap completed runs, given the
\* inputs of the service specification with "generic" the one name registered
\* and one value of Math.random()
InitLongRunning ==
    \E n \in {HistoryCap - 1, HistoryCap} :
        InitWith([SvcLim EXCEPT !.regNames = {"generic"}, !.randoms = {1}], n)

SpecLongRunning == InitLongRunning /\ [][Next]_vars

InitScrape == InitWith(ScrLim, 0)

\* The scrape specification: one run, with retries, several pages and timers.
NextScrape ==
    \/ RunScraperCall
    \/ RunScraperSettle
    \/ GetSucceeds
    \/ GetFails
    \/ BackoffElapsed
    \/ PageDelayElapsed
    \/ UpsertApplied
    \/ UpsertRejected

SpecScrape == InitScrape /\ [][NextScrape]_vars
InitSave == InitWith(SaveLim, 0)

\* The save specification: saveJobs calls on scraper instances, in flight
\* together or one after the other, against one store.
NextSave ==
    \/ SaveJobsCall
    \/ UpsertApplied
    \/ UpsertRejected

SpecSave == InitSave /\ [][NextSave]_vars

\* The race specification: saveJobs calls in flight together against a store
\* that serves an upsert in one step, or looks for the record and inserts it
\* in two, the unique index on externalId deciding the insert.
NextRace ==
    \/ SaveJobsCall
    \/ UpsertApplied
    \/ UpsertFindsNone
    \/ InsertApplied
    \/ InsertDuplicateKey

SpecRace == InitSave /\ [][NextRace]_vars

InitListings == InitWith(ListLim, 0)

\* The listing specification: scrapes of the two sites in flight together,
\* each extracting the elements of its page and saving them.
NextListings ==
    \/ RunScraperCall
    \/ RunScraperSettle
    \/ RunMultipleScrapers
    \/ ParallelResolve
    \/ GetSucceeds
    \/ UpsertApplied

SpecListings == InitListings /\ [][NextListings]_vars

InitAgain == InitWith(AgainLim, 0)

\* The repeated-scrape specification: a scraper run several times, one run
\* after the other, at the same or at later milliseconds.
NextAgain ==
    \/ RunScraperCall
    \/ RunScraperSettle
    \/ GetSucceeds
    \/ UpsertApplied
    \/ Tick

SpecAgain == InitAgain /\ [][NextAgain]_vars

InitDates == InitWith(SaveLim, 0)

\* The date specification: extractPostedDate called on date texts while the
\* clock advances.
NextDates ==
    \/ ExtractPostedDateCall
    \/ Tick

SpecDates == InitDates /\ [][NextDates]_vars

InitRegistry == InitWith(SaveLim, 0)

\* The registry specification: register, unregister and getScraper calls in
\* any order.
NextRegistry ==
    \/ RegisterCall
    \/ UnregisterCall
    \/ GetScraperCall

SpecRegistry == InitRegistry /\ [][NextRegistry]_vars

InitFetch == InitWith(SaveLim, 0)

\* The fetcher specification: fetchAndStoreJobs calls, one after the other
\* or in flight together, against one store.
NextFetch ==
    \/ FetchAndStoreJobsCall
    \/ ApiResponds
    \/ ApiFails
    \/ FetchUpsertApplied
    \/ FetchUpsertRejected

SpecFetch == InitFetch /\ [][NextFetch]_vars

InitAnswers == InitWith(SaveLim, 0)

\* The answer specification: saveJobs calls against a store that answers an
\* upsert with its counts, without counts, or with an error.
NextAnswers ==
    \/ SaveJobsCall
    \/ UpsertApplied
    \/ UpsertUncounted
    \/ UpsertRejected

SpecAnswers == InitAnswers /\ [][NextAnswers]_vars

\* The inputs of the history specification: the service with room for the
\* calls that read its history
HistLim == [SvcLim EXCEPT !.runs = MaxRuns + 1, !.randoms = {1}]

InitHistory == \E n \in 0..MaxLimit : InitWith(HistLim, n)

\* The history specification: runs that add entries, reads of the history and
\* calls that clear it
NextHistory ==
    \/ RunScraperCall
    \/ RunScraperSettle
    \/ GetSucceeds
    \/ GetFails
    \/ UpsertApplied
    \/ UpsertRejected
    \/ GetScrapeHistoryCall
    \/ ClearHistoryCall

SpecHistory == InitHistory /\ [][NextHistory]_vars

\* The runs and the pages of the instance specification
InstRuns == 2
InstPages == 2

\* The inputs of the instance specification: runs of the two site scrapers,
\* of the same name or not, over two pages each, with listings that differ
\* from page to page, requests that fail and writes that are rejected
InstLim ==
    [runs |-> InstRuns,
     names |-> {"oficina-trabajo-cei", "linkedin"},
     randoms |-> {1},
     options |-> {[maxPages |-> InstPages, config |-> [maxRetries |-> 1]]},
     pages |-> {<<CardA>>, <<CardBad, CardC>>},
     errs |-> {"timeout"},
     storeErrs |-> {"E11000"},
     regNames |-> {},
     regClasses |-> {},
     saveClasses |-> {},
     saveJobs |-> {}]

InitInstances == InitWith(InstLim, 0)

\* The instance specification: runs in flight together, their steps
\* interleaved in every order
NextInstances ==
    \/ RunScraperCall
    \/ RunScraperSettle
    \/ GetSucceeds
    \/ GetFails
    \/ PageDelayElapsed
    \/ UpsertApplied
    \/ UpsertRejected

SpecInstances == InitInstances /\ [][NextInstances]_vars

InitTermination == InitWith(TermLim, 0)

\* The steps of the termination specification
NextTermination ==
    \/ RunScraperCall
    \/ RunScraperSettle
    \/ GetFails
    \/ GetSucceeds
    \/ BackoffElapsed
    \/ PageDelayElapsed
    \/ UpsertRejected
    \/ UpsertApplied

\* The termination specification: a step that can be taken is eventually
\* taken (a pending request or store operation returns or fails, a timer
\* fires, a settled promise is continued). The calls being finitely many,
\* this is all the progress the runs need.
SpecTermination ==
    /\ InitTermination
    /\ [][NextTermination]_vars
    /\ WF_vars(NextTermination)

(***************************************************************************)
(* Properties                                                              *)
(***************************************************************************)
Slots == DOMAIN runs
InFlight(r) == runs[r].pc \notin {"idle", "done"}
Settled(r) == runs[r].pc = "done"
HistoryEntriesOf(id) == {i \in 1..Len(scrapeHistory) : scrapeHistory[i].id = id}
\* the call got past the unknown-scraper check, so activeScrapes.set ran
MarkedActive(r) ==
    /\ runs[r].pc # "idle"
    /\ ~(runs[r].outcome = "threw" /\ runs[r].value.msg = "Unknown scraper")
ZeroStats == [saved |-> 0, duplicates |-> 0, failed |-> 0, total |-> 0]

\* C1: the history never holds more than 100 entries, whatever mix of runs
\* that succeed, report failure or throw inside runScraper has been made.
C1_HistoryBounded == Len(scrapeHistory) <= HistoryCap

\* C2: every run that runScraper marked active is in the active map exactly
\* while it is in flight; once it has settled (returned, reported failure or
\* threw) it is out of the active map and the history holds exactly one entry
\* with its run id; no run id is in the active map and in the history at once;
\* with no call in flight the active map is empty.
C2_ActiveLifecycle ==
    /\ \A r \in Slots :
          /\ InFlight(r) =>
                /\ ActiveHas(activeScrapes, runs[r].scrapeId)
                /\ HistoryEntriesOf(runs[r].scrapeId) = {}
          /\ (Settled(r) /\ MarkedActive(r)) =>
                /\ ~ActiveHas(activeScrapes, runs[r].scrapeId)
                /\ Cardinality(HistoryEntriesOf(runs[r].scrapeId)) = 1
    /\ \A a \in activeScrapes : HistoryEntriesOf(a.id) = {}
    /\ (\A r \in Slots : ~InFlight(r)) => activeScrapes = {}

\* No two runScraper calls made so far were given the same id by
\* generateScrapeId.
DistinctRunIds ==
    \A r1, r2 \in Slots :
        (r1 # r2 /\ runs[r1].pc # "idle" /\ runs[r2].pc # "idle") =>
            runs[r1].scrapeId # runs[r2].scrapeId

\* The life cycle of the active map and the history, for the runs of a
\* service whose calls all drew different ids.
ActiveLifecycleOfDistinctIds == DistinctRunIds => C2_ActiveLifecycle

\* Two runs that share one id: both in flight over a single entry of the
\* active map, or one settled and out of the map while the other is in
\* flight, or both settled with two history entries of the one id.
SharedIdRuns ==
    \E r1, r2 \in Slots :
        /\ r1 # r2 /\ MarkedActive(r1) /\ MarkedActive(r2)
        /\ runs[r1].scrapeId = runs[r2].scrapeId
        /\ \/ InFlight(r1) /\ InFlight(r2) /\ Cardinality(activeScrapes) = 1
           \/ Settled(r1) /\ InFlight(r2) /\ activeScrapes = {}
           \/ /\ Settled(r1) /\ Settled(r2)
              /\ Cardinality(HistoryEntriesOf(runs[r1].scrapeId)) = 2

\* C3 as stated: whenever runScraper fails with an error to its caller, the
\* unknown-name case included, a failed history entry for that call exists.
C3_Original ==
    \A r \in Slots :
        runs[r].outcome = "threw" =>
            \E i \in HistoryEntriesOf(runs[r].scrapeId) : ~scrapeHistory[i].success

\* C3 amended: an error raised after the run was marked active (by the
\* constructor or by scrape()) reaches the caller only after a failed history
\* entry carrying the run id and the error has been appended, and it is not
\* swallowed; for a name that is not registered the error reaches the caller
\* and no history entry is recorded for the call: each step appends as many
\* entries as runs that were marked active settle in it.
C3_FailureRecorded ==
    /\ [](\A r \in Slots :
            /\ (runs[r].outcome = "threw" /\ MarkedActive(r)) =>
                  \E i \in HistoryEntriesOf(runs[r].scrapeId) :
                      /\ ~scrapeHistory[i].success
                      /\ "error" \in DOMAIN scrapeHistory[i]
                      /\ scrapeHistory[i].error = runs[r].value
            /\ (Settled(r) /\ "rejected" \in DOMAIN runs[r].scrapeResult) =>
                  /\ runs[r].outcome = "threw"
                  /\ runs[r].value = runs[r].scrapeResult.rejected)
    /\ [][Len(scrapeHistory') = Len(scrapeHistory)
              + Cardinality({r \in Slots : /\ ~Settled(r)
                                           /\ Settled(r)'
                                           /\ MarkedActive(r)'})]_vars

\* C3 witness: one call has thrown out of scrape(), one out of the
\* constructor, one for an unknown name.
C3_Witness ==
    /\ \E r \in Slots : runs[r].outcome = "threw" /\ runs[r].value = NotImplementedError
    /\ \E r \in Slots : runs[r].outcome = "threw" /\ ~MarkedActive(r)

\* A scrape that failed fatally: its catch block built the result.
FailedFatally(r) ==
    /\ Settled(r)
    /\ "success" \in DOMAIN runs[r].scrapeResult
    /\ ~runs[r].scrapeResult.success

\* C4 as stated: when a scrape started through runScraper fails fatally, the
\* run is in the history as failed with zero stats and the caller of
\* runScraper receives a thrown error, not a return value.
C4_Original ==
    \A r \in Slots :
        FailedFatally(r) =>
            /\ \E i \in HistoryEntriesOf(runs[r].scrapeId) :
                  ~scrapeHistory[i].success /\ scrapeHistory[i].stats = ZeroStats
            /\ runs[r].outcome = "threw"

\* C4 amended: when a scrape started through runScraper fails fatally, the
\* run is in the history as failed with zero stats and the caller of
\* runScraper receives a normal return value with success false, zero stats
\* and the errors of the scrape; no error is thrown.
C4_FatalScrapeReturns ==
    \A r \in Slots :
        FailedFatally(r) =>
            /\ \E i \in HistoryEntriesOf(runs[r].scrapeId) :
                  /\ ~scrapeHistory[i].success
                  /\ scrapeHistory[i].stats = ZeroStats
                  /\ scrapeHistory[i].errorCount >= 1
            /\ runs[r].outcome = "returned"
            /\ ~runs[r].value.success
            /\ runs[r].value.stats = ZeroStats
            /\ Len(runs[r].value.errors) >= 1

\* C4 witness: every attempt for the second page failed, after a first page
\* that held a listing.
C4_Witness ==
    \E r \in Slots :
        /\ FailedFatally(r)
        /\ runs[r].page = 2
        /\ runs[r].maxRetries >= 2
        /\ Len(runs[r].value.jobs) >= 1
        /\ runs[r].value.errors[1].error.msg = "Failed to fetch"

\* C5: runMultipleScrapers hands every config to runScraper, whatever the
\* earlier ones did, and resolves with one result per config in config order:
\* for a run that threw (unknown name, constructor, scrape) the record
\* {scraperName, success: false, error}, for any other run what that run's own
\* scrape produced.
C5_ParallelIsolation ==
    batch.mode = "parallel" =>
        /\ Len(batch.slots) = Len(batch.names)
        /\ \A k \in 1..Len(batch.names) :
              /\ runs[batch.slots[k]].pc # "idle"
              /\ runs[batch.slots[k]].scraperName = batch.names[k]
        /\ batch.status = "resolved" =>
              /\ Len(batch.results) = Len(batch.names)
              /\ \A k \in 1..Len(batch.names) :
                    LET run == runs[batch.slots[k]]
                        res == batch.results[k]
                    IN  /\ res.scraperName = batch.names[k]
                        /\ IF run.outcome = "threw"
                           THEN res = [scraperName |-> batch.names[k], success |-> FALSE,
                                       error |-> run.value]
                           ELSE /\ res.scrapeId = run.scrapeId
                                /\ res.success = run.scrapeResult.success
                                /\ res.jobs = run.scrapeResult.jobs
                                /\ res.stats = run.scrapeResult.stats
                                /\ res.errors = run.scrapeResult.errors

\* C5 witness: a resolved call of two configs, the first of which threw while
\* the second scraped a listing and saved it.
C5_Witness ==
    /\ batch.mode = "parallel"
    /\ batch.status = "resolved"
    /\ Len(batch.results) = 2
    /\ runs[batch.slots[1]].outcome = "threw"
    /\ batch.results[2].success
    /\ batch.results[2].stats.saved = 1

\* C6: in runMultipleScrapersSequential the run of a config is started (given
\* a slot, hence marked active, hence able to issue a request) only when the
\* runs of all earlier configs have settled; the results gathered so far are
\* those of the settled runs in config order, a run that threw giving the
\* record {scraperName, success: false, error}; and the call resolves only
\* with one result per config, the runs after a failing one included.
C6_SequentialOrder ==
    batch.mode = "sequential" =>
        /\ Len(batch.slots) + Len(batch.rest) = Len(batch.names)
        /\ \A k \in 1..(Len(batch.slots) - 1) : Settled(batch.slots[k])
        /\ Cardinality({k \in 1..Len(batch.slots) : InFlight(batch.slots[k])}) <= 1
        /\ Len(batch.results) \in {Len(batch.slots) - 1, Len(batch.slots)}
        /\ \A k \in 1..Len(batch.results) :
              LET run == runs[batch.slots[k]]
                  res == batch.results[k]
              IN  /\ res.scraperName = batch.names[k]
                  /\ IF run.outcome = "threw"
                     THEN res = [scraperName |-> batch.names[k], success |-> FALSE,
                                 error |-> run.value]
                     ELSE res.scrapeId = run.scrapeId
                          /\ res.success = run.scrapeResult.success
        /\ batch.status = "resolved" =>
              /\ batch.rest = <<>>
              /\ Len(batch.results) = Len(batch.names)

\* C6 witness: a resolved call of two configs whose first run threw and whose
\* second run fetched its page.
C6_Witness ==
    /\ batch.mode = "sequential"
    /\ batch.status = "resolved"
    /\ Len(batch.results) = 2
    /\ runs[batch.slots[1]].outcome = "threw"
    /\ runs[batch.slots[2]].outcome = "returned"
    /\ Len(runs[batch.slots[2]].log) >= 1
(***************************************************************************)
(* Properties of one scrape, read off the run's event log                  *)
(***************************************************************************)
RECURSIVE JobsOfPages(_, _)
\* the listings of the pages fetched in the first n events, in fetch order
JobsOfPages(L, n) ==
    IF n = 0 THEN <<>>
    ELSE IF L[n].ev = "ok" THEN JobsOfPages(L, n - 1) \o L[n].jobs
         ELSE JobsOfPages(L, n - 1)

\* the GET requests issued for a page
GetsFor(L, page) == {i \in 1..Len(L) : L[i].ev = "get" /\ L[i].page = page}

\* the scrape ended in the catch block with the fetch-failed error
FetchFailed(r) ==
    /\ runs[r].pc \in {"scrapeSettled", "done"}
    /\ "success" \in DOMAIN runs[r].scrapeResult
    /\ ~runs[r].scrapeResult.success
    /\ runs[r].scrapeResult.errors[Len(runs[r].scrapeResult.errors)].error.msg
           = "Failed to fetch"

\* C7: a scraper instance has at most one request in flight; nothing follows
\* a GET in the log before its response; the first GET of page N comes after
\* page N-1 was fetched and extracted; pages are requested in ascending
\* order; the accumulated jobs are the page results concatenated in page order.
C7_PagesInOrder ==
    \A r \in Slots :
        LET L == runs[r].log
        IN  /\ Cardinality(runs[r].pending) <= 1
            /\ \A i \in 1..Len(L) :
                  L[i].ev = "get" =>
                     /\ i < Len(L) => /\ L[i + 1].ev \in {"ok", "fail"}
                                      /\ L[i + 1].page = L[i].page
                     /\ i = Len(L) => runs[r].pc = "get"
                     /\ (L[i].page > 1 /\ L[i].n = 1) =>
                           \E j \in 1..(i - 1) :
                               /\ L[j].ev = "ok"
                               /\ L[j].page = L[i].page - 1
                     /\ \A j \in 1..(i - 1) :
                           L[j].ev \in {"get", "ok", "fail"} => L[j].page <= L[i].page
            /\ \A i, j \in 1..Len(L) :
                  (i < j /\ L[i].ev = "ok" /\ L[j].ev = "ok") => L[i].page < L[j].page
            /\ runs[r].jobs = JobsOfPages(L, Len(L))

\* C7 witness: two pages were fetched, the first after a retry, and their
\* listings accumulated.
C7_Witness ==
    \E r \in Slots :
        LET L == runs[r].log
        IN  /\ \E i, j \in 1..Len(L) :
                  /\ i < j
                  /\ L[i].ev = "ok" /\ L[i].page = 1 /\ L[i].n = 1
                  /\ L[i].jobs[1].title = Dev
                  /\ L[j].ev = "ok" /\ L[j].page = 2 /\ L[j].n = 1
                  /\ L[j].jobs[1].title = Ops
            /\ \E i \in 1..Len(L) : L[i].ev = "fail" /\ L[i].page = 1
            /\ Len(runs[r].jobs) = 2
            /\ runs[r].jobs[1].title = Dev /\ runs[r].jobs[2].title = Ops

\* C8: once a page yielded no listing, no further request (and no inter-page
\* wait) is made, even when that page is not the last one asked for; the
\* scrape goes straight to saving the listings of the earlier pages (each is
\* upserted or, if invalid, counted failed) and returns success: true.
C8_StopsOnEmptyPage ==
    \A r \in Slots :
        LET L == runs[r].log
        IN  \A i \in 1..Len(L) :
                (L[i].ev = "ok" /\ L[i].n = 0) =>
                    /\ \A j \in (i + 1)..Len(L) : L[j].ev = "upsert"
                    /\ runs[r].pc \in {"upsert", "scrapeSettled", "done"}
                    /\ runs[r].jobs = JobsOfPages(L, i - 1)
                    /\ runs[r].pc \in {"scrapeSettled", "done"} =>
                          /\ runs[r].scrapeResult.success
                          /\ runs[r].scrapeResult.jobs = JobsOfPages(L, i - 1)
                          /\ {L[j].n : j \in (i + 1)..Len(L)} =
                                {k \in 1..Len(runs[r].jobs) :
                                    validateJobData(cleanJobData(runs[r].cls, runs[r].jobs[k], now))}
                          /\ Len(runs[r].jobs) > 0 =>
                                /\ runs[r].scrapeResult.stats.total = Len(runs[r].jobs)
                                /\ runs[r].scrapeResult.stats.saved
                                     + runs[r].scrapeResult.stats.duplicates
                                     + runs[r].scrapeResult.stats.failed = Len(runs[r].jobs)

\* C8 witness: two pages were asked for, the first one was fetched and held
\* no listing, and the scrape has returned success having made one request.
C8_Witness ==
    \E r \in Slots :
        LET L == runs[r].log
        IN  /\ runs[r].maxPages = 2
            /\ runs[r].pc = "done"
            /\ L[Len(L)] = OkEvent(1, <<>>)
            /\ Cardinality(GetsFor(L, 1)) = 1
            /\ GetsFor(L, 2) = {}
            /\ runs[r].scrapeResult.success
            /\ runs[r].outcome = "returned"

\* C9 as stated: a URL whose every GET fails is requested 1 + maxRetries
\* times before the fetch-failed error is raised.
C9_Original ==
    \A r \in Slots :
        FetchFailed(r) =>
            Cardinality(GetsFor(runs[r].log, runs[r].page)) = 1 + runs[r].maxRetries

\* C9 amended: fetchPage makes at most maxRetries GET requests for a URL, the
\* first one included; a URL whose every GET fails is requested exactly
\* maxRetries times before the fetch-failed error is raised, and a success on
\* any attempt ends the loop at once: no further request for that URL follows.
C9_AttemptsBounded ==
    \A r \in Slots :
        LET L == runs[r].log
        IN  /\ \A p \in 1..runs[r].maxPages :
                  Cardinality(GetsFor(L, p)) <= runs[r].maxRetries
            /\ \A i \in 1..Len(L) :
                  L[i].ev = "get" =>
                     L[i].n = Cardinality({j \in GetsFor(L, L[i].page) : j <= i})
            /\ FetchFailed(r) =>
                  /\ Cardinality(GetsFor(L, runs[r].page)) = runs[r].maxRetries
                  /\ \A i \in GetsFor(L, runs[r].page) : L[i + 1].ev = "fail"
            /\ \A i \in 1..Len(L) :
                  L[i].ev = "ok" =>
                     /\ L[i - 1].ev = "get" /\ L[i - 1].page = L[i].page
                     /\ \A j \in GetsFor(L, L[i].page) : j < i

\* C9 witness: with maxRetries 2 the first page failed twice and the scrape
\* ended with the fetch-failed error.
C9_Witness ==
    \E r \in Slots :
        /\ FetchFailed(r)
        /\ runs[r].maxRetries = 2
        /\ runs[r].page = 1
        /\ Cardinality(GetsFor(runs[r].log, 1)) = 2

\* C10: after failed attempt k < maxRetries the scraper waits k times
\* delayBetweenRequests and then makes attempt k + 1; after the failure of
\* attempt maxRetries nothing follows (no wait, no request), and the error
\* raised carries the URL, the number of attempts and the message of that
\* last failure.
C10_LinearBackoff ==
    \A r \in Slots :
        LET L == runs[r].log
        IN  \A i \in 1..Len(L) :
                L[i].ev = "fail" =>
                    IF L[i].n < runs[r].maxRetries
                    THEN /\ i + 1 <= Len(L)
                         /\ L[i + 1] = Event("delay", L[i].page,
                                             L[i].n * runs[r].delayBetweenRequests)
                         /\ i + 2 <= Len(L) => L[i + 2] = Event("get", L[i].page, L[i].n + 1)
                         /\ i + 1 = Len(L) => runs[r].pc = "backoff"
                    ELSE /\ i = Len(L)
                         /\ runs[r].pc \in {"scrapeSettled", "done"}
                         /\ ~runs[r].scrapeResult.success
                         /\ runs[r].scrapeResult.errors[Len(runs[r].scrapeResult.errors)]
                              = [error |-> FetchFailedError(
                                              buildSearchUrl(runs[r].cls, L[i].page),
                                              runs[r].maxRetries, L[i].cause)]

\* C10 witness: three attempts failed, the waits were one and two times the
\* delay, and the error carries the cause of the last failure, which differs
\* from that of the first.
C10_Witness ==
    \E r \in Slots :
        LET L == runs[r].log
        IN  /\ FetchFailed(r)
            /\ runs[r].maxRetries = 3
            /\ Len(L) = 8
            /\ L[3].ev = "delay" /\ L[3].n = runs[r].delayBetweenRequests
            /\ L[6].ev = "delay" /\ L[6].n = 2 * runs[r].delayBetweenRequests
            /\ L[2].cause = "timeout" /\ L[8].cause = "reset"
            /\ runs[r].scrapeResult.errors[1].error.cause = "reset"

(***************************************************************************)
(* Properties of fatal failures, extraction, identifiers and saving        *)
(***************************************************************************)
\* the last attempt allowed for a page has failed
FetchExhausted(r) ==
    \E i \in 1..Len(runs[r].log) :
        runs[r].log[i].ev = "fail" /\ runs[r].log[i].n = runs[r].maxRetries

\* C11: once the fetch of a page has failed on its last attempt, the run
\* issues no upsert at all (the store holds nothing of it, the listings of
\* the earlier pages included), and scrape() has returned without throwing:
\* success false, the four stats 0, at least one error entry, and jobs equal
\* to the listings accumulated from the pages fetched before.
C11_NoPartialPersistence ==
    \A r \in Slots :
        FetchExhausted(r) =>
            LET L == runs[r].log
            IN  /\ \A i \in 1..Len(L) : L[i].ev # "upsert"
                /\ store = {}
                /\ runs[r].pc \in {"scrapeSettled", "done"}
                /\ "success" \in DOMAIN runs[r].scrapeResult
                /\ ~runs[r].scrapeResult.success
                /\ runs[r].scrapeResult.stats = ZeroStats
                /\ Len(runs[r].scrapeResult.errors) >= 1
                /\ runs[r].scrapeResult.jobs = JobsOfPages(L, Len(L))

\* C11 witness: the first page gave a valid listing, the second page failed
\* on every attempt; the result carries the listing and nothing is stored.
C11_Witness ==
    \E r \in Slots :
        /\ FetchExhausted(r)
        /\ runs[r].pc = "done"
        /\ runs[r].page = 2
        /\ Len(runs[r].scrapeResult.jobs) = 1
        /\ validateJobData(cleanJobData(runs[r].cls, runs[r].scrapeResult.jobs[1], now))
        /\ store = {}

\* the store answered the upsert of run r in this step (it did not reject it)
UpsertAnswered(r) ==
    /\ runs[r].pc = "upsert"
    /\ runs'[r] # runs[r]
    /\ Len(runs'[r].errors) = Len(runs[r].errors)

\* C12: the store holds at most one record per externalId; the upsert of a
\* valid job whose externalId is stored creates no record, replaces the
\* stored fields by those of the job and counts one duplicate and nothing
\* saved; the upsert of one whose externalId is absent inserts it and counts
\* one saved and no duplicate.
C12_UpsertByExternalId ==
    /\ [](\A d1, d2 \in store : d1.externalId = d2.externalId => d1 = d2)
    /\ [][\A r \in Slots :
            UpsertAnswered(r) =>
                LET job == runs[r].cleaned
                IN  IF \E d \in store : d.externalId = job.externalId
                    THEN /\ Cardinality(store') = Cardinality(store)
                         /\ job \in store'
                         /\ \A d \in store' : d.externalId = job.externalId => d = job
                         /\ \A d \in store : d.externalId # job.externalId => d \in store'
                         /\ runs'[r].duplicates = runs[r].duplicates + 1
                         /\ runs'[r].saved = runs[r].saved
                         /\ runs'[r].failed = runs[r].failed
                    ELSE /\ store' = store \cup {job}
                         /\ runs'[r].saved = runs[r].saved + 1
                         /\ runs'[r].duplicates = runs[r].duplicates
                         /\ runs'[r].failed = runs[r].failed]_vars

\* C12 witness: one call saved a job, a later call saved a job with the same
\* externalId and another title; the one record stored has the later title
\* and the later call reports one duplicate and nothing saved.
C12_Witness ==
    /\ \E r1, r2 \in Slots :
          /\ r1 < r2
          /\ Settled(r1) /\ runs[r1].jobs = <<CompleteJob>> /\ runs[r1].value.saved = 1
          /\ Settled(r2) /\ runs[r2].jobs = <<ChangedJob>>
          /\ runs[r2].value.duplicates = 1 /\ runs[r2].value.saved = 0
    /\ Cardinality(store) = 1
    /\ \A d \in store : d.title = DevOps /\ d.externalId = CompleteJob.externalId

\* the upserts run r issued for its job i
UpsertsOf(r, i) ==
    {k \in 1..Len(runs[r].log) : runs[r].log[k].ev = "upsert" /\ runs[r].log[k].n = i}

\* a saveJobs call made on a scraper instance
IsSaveCall(r) == runs[r].caller = "saveJobs"

\* C13 as stated: validateJobData is false for a job missing any one of the
\* five required fields, and saveJobs given such a job never invokes the
\* store for it and counts it as failed.
C13_Original ==
    /\ \A f \in RequiredFields : ~validateJobData(JobWithout(f))
    /\ \A r \in Slots :
          IsSaveCall(r) =>
              LET missing == {i \in 1..Len(runs[r].jobs) :
                                 \E f \in RequiredFields : runs[r].jobs[i][f] = <<>>}
              IN  /\ \A i \in missing : UpsertsOf(r, i) = {}
                  /\ Settled(r) => runs[r].value.failed >= Cardinality(missing)

\* C13 amended: validateJobData is false for a job missing any one of the
\* five required fields. saveJobs validates the job as cleanJobData returns
\* it: a job whose title, company, location or applyLink is missing (or
\* blank once cleaned) is counted as failed and the store is never invoked
\* for it; a job missing only its source gets the source of the scraper,
\* passes the validation and is upserted.
C13_InvalidJobsFail ==
    /\ \A f \in RequiredFields : ~validateJobData(JobWithout(f))
    /\ \A r \in Slots :
          IsSaveCall(r) =>
              LET blank == {i \in 1..Len(runs[r].jobs) :
                               \E f \in RequiredFields \ {"source"} :
                                   cleanText(runs[r].jobs[i][f]) = <<>>}
              IN  /\ \A i \in blank : UpsertsOf(r, i) = {}
                  /\ Settled(r) =>
                        /\ Len(runs[r].jobs) > 0 =>
                              runs[r].value.failed
                                 = Cardinality(blank) + Len(runs[r].errors)
                        /\ \A i \in (1..Len(runs[r].jobs)) \ blank :
                              Cardinality(UpsertsOf(r, i)) = 1

\* C13 witness: a call was given a job without location and a complete job
\* and reports one failed and one saved after a single upsert; another call
\* was given a job without source and saved it under the scraper's source.
C13_Witness ==
    /\ \E r \in Slots :
          /\ Settled(r) /\ runs[r].jobs = <<JobWithout("location"), OtherJob>>
          /\ runs[r].value.failed = 1 /\ runs[r].value.saved = 1
          /\ UpsertsOf(r, 1) = {} /\ Cardinality(UpsertsOf(r, 2)) = 1
    /\ \E r \in Slots :
          /\ Settled(r) /\ runs[r].jobs = <<JobWithout("source")>>
          /\ runs[r].value.saved = 1
          /\ \E d \in store : d.source = SourceOf(runs[r].cls)
                                /\ d.externalId = CompleteJob.externalId

\* C14: saveJobs with no jobs to save issues no upsert and returns the
\* counts saved, duplicates, failed and total, all 0; and a scrape that
\* found no listing returns success with those four counts as its stats.
C14_EmptySaveCounts ==
    \A r \in Slots :
        /\ (IsSaveCall(r) /\ Settled(r) /\ runs[r].jobs = <<>>) =>
              /\ \A k \in 1..Len(runs[r].log) : runs[r].log[k].ev # "upsert"
              /\ runs[r].value = ZeroStats
        /\ (~IsSaveCall(r) /\ "success" \in DOMAIN runs[r].scrapeResult
              /\ runs[r].scrapeResult.success /\ runs[r].scrapeResult.jobs = <<>>) =>
              runs[r].scrapeResult.stats = ZeroStats

\* the entries the catch block of saveJobs pushed on the errors of run r
RejectedWrites(r) ==
    {k \in 1..Len(runs[r].errors) : "job" \in DOMAIN runs[r].errors[k]}

\* C15: when the store rejected the write of a job, errors holds an entry
\* with that job and the message of the error; saveJobs does not throw, the
\* jobs after it are still cleaned, validated and upserted, only the invalid
\* and the rejected jobs are counted failed, and the enclosing scrape
\* returns success: true with a failed count that is not 0.
C15_RejectedWriteContained ==
    \A r \in Slots :
        RejectedWrites(r) # {} =>
            LET jobs    == runs[r].jobs
                invalid == {i \in 1..Len(jobs) :
                               ~validateJobData(cleanJobData(runs[r].cls, jobs[i], now))}
            IN  /\ \A k \in RejectedWrites(r) :
                      /\ \E i \in (1..Len(jobs)) \ invalid : runs[r].errors[k].job = jobs[i]
                      /\ runs[r].errors[k].error.msg \in lim.storeErrs
                /\ Cardinality(RejectedWrites(r)) <= Len(jobs) - Cardinality(invalid)
                /\ runs[r].outcome # "threw"
                /\ runs[r].pc \in {"scrapeSettled", "done"} =>
                      /\ runs[r].scrapeResult.success
                      /\ runs[r].scrapeResult.errors = runs[r].errors
                      /\ runs[r].scrapeResult.stats.failed
                            = Cardinality(invalid) + Cardinality(RejectedWrites(r))
                      /\ runs[r].scrapeResult.stats.failed > 0
                      /\ runs[r].scrapeResult.stats.saved
                           + runs[r].scrapeResult.stats.duplicates
                            = Len(jobs) - runs[r].scrapeResult.stats.failed
                      /\ \A i \in (1..Len(jobs)) \ invalid :
                            Cardinality(UpsertsOf(r, i)) = 1

\* C15 witness: a scrape of two pages found a valid listing on each; the
\* write of the first was rejected, the second was upserted and saved, and
\* the scrape returned success with one failed and one saved.
C15_Witness ==
    \E r \in Slots :
        /\ Settled(r)
        /\ Len(runs[r].jobs) = 2
        /\ RejectedWrites(r) = {1}
        /\ runs[r].errors[1].job = runs[r].jobs[1]
        /\ Cardinality(UpsertsOf(r, 2)) = 1
        /\ runs[r].value.success
        /\ runs[r].value.stats.failed = 1
        /\ runs[r].value.stats.saved = 1

\* whether extractJobData throws on the element
ExtractionThrows(cls, card) == "thrown" \in DOMAIN extractJobData(cls, card, 0)

\* whether the loop of extractJobsFromPage keeps the job of the element
ExtractionKeeps(cls, card) ==
    LET job == extractJobData(cls, card, 0)
    IN  "thrown" \notin DOMAIN job /\ job.title # <<>> /\ job.company # <<>>

\* the elements (page, index) of the pages run r fetched
FetchedElements(r) ==
    {e \in (1..Len(runs[r].fetched)) \X (1..2) :
        e[2] <= Len(runs[r].fetched[e[1]].cards)}

\* the elements of the pages run r fetched whose extraction throws
ThrowingElements(r) ==
    {e \in FetchedElements(r) :
        ExtractionThrows(runs[r].cls, runs[r].fetched[e[1]].cards[e[2]])}

\* the elements of the pages run r fetched whose job the loop keeps
KeptElements(r) ==
    {e \in FetchedElements(r) :
        ExtractionKeeps(runs[r].cls, runs[r].fetched[e[1]].cards[e[2]])}

\* C16: for both site scrapers, when extracting one element of a fetched
\* page throws, an entry with the index of that element is appended to the
\* errors of the run, and the other elements of the page are still
\* extracted: the run holds one job for each element that has a title and a
\* company and did not throw.
C16_ExtractionErrorContained ==
    \A r \in Slots :
        runs[r].cls \in {Oficina, LinkedIn} =>
            /\ \A e \in ThrowingElements(r) :
                  \E k \in 1..Len(runs[r].errors) :
                      /\ "index" \in DOMAIN runs[r].errors[k]
                      /\ runs[r].errors[k].index = e[2] - 1
            /\ Len(runs[r].jobs) = Cardinality(KeptElements(r))

RECURSIVE SavedBy(_)
\* the records the runs 1..n counted as saved so far
SavedBy(n) == IF n = 0 THEN 0 ELSE runs[n].saved + SavedBy(n - 1)

\* the jobs of run r that pass validation once cleaned
ValidJobs(r) ==
    {i \in 1..Len(runs[r].jobs) :
        validateJobData(cleanJobData(runs[r].cls, runs[r].jobs[i], runs[r].clock))}

\* the upserts of run r that lost a race: the store answered them with the
\* duplicate-key error
LostRaces(r) ==
    {k \in RejectedWrites(r) : runs[r].errors[k].error.msg = "E11000"}

\* C17: under every interleaving of the upserts of saves in flight together,
\* two saves of one externalId included, the store never holds two records
\* with one externalId, and every upsert of a valid job is counted by its
\* run as saved or as duplicate, never as failed: a save that has returned
\* counts as failed its invalid jobs only, and no job is in its errors.
C17_ConcurrentUpserts ==
    /\ \A d1, d2 \in store : d1.externalId = d2.externalId => d1 = d2
    /\ \A r \in Slots :
          IsSaveCall(r) =>
              /\ RejectedWrites(r) = {}
              /\ Settled(r) =>
                    /\ runs[r].value.failed
                          = Len(runs[r].jobs) - Cardinality(ValidJobs(r))
                    /\ runs[r].jobs # <<>> =>
                          runs[r].value.saved + runs[r].value.duplicates
                             = Cardinality(ValidJobs(r))

\* What the saves in flight together keep: one record per externalId, every
\* record counted as saved by exactly one upsert, and a valid job counted as
\* saved or as duplicate unless its upsert lost a race, in which case it is
\* counted as failed, the record of its externalId being the winner's.
OneRecordPerExternalId ==
    /\ \A d1, d2 \in store : d1.externalId = d2.externalId => d1 = d2
    /\ SavedBy(MaxRuns) = Cardinality(store)
    /\ \A r \in Slots :
          IsSaveCall(r) =>
              /\ RejectedWrites(r) = LostRaces(r)
              /\ \A k \in LostRaces(r) :
                    \E d \in store :
                        d.externalId
                          = cleanJobData(runs[r].cls, runs[r].errors[k].job,
                                         runs[r].clock).externalId
              /\ Settled(r) =>
                    /\ runs[r].value.failed
                          = Len(runs[r].jobs) - Cardinality(ValidJobs(r))
                            + Cardinality(LostRaces(r))
                    /\ runs[r].jobs # <<>> =>
                          runs[r].value.saved + runs[r].value.duplicates
                             = Cardinality(ValidJobs(r)) - Cardinality(LostRaces(r))

\* Two saves of one job in flight together: the upsert of one found no
\* record, the other's inserted it in between, and the first was answered
\* with the duplicate-key error and counted its valid job as failed.
LostRace ==
    \E r1, r2 \in Slots :
        /\ r1 # r2
        /\ IsSaveCall(r1) /\ IsSaveCall(r2)
        /\ runs[r1].jobs = <<CompleteJob>> /\ runs[r2].jobs = <<CompleteJob>>
        /\ Settled(r1) /\ Settled(r2)
        /\ runs[r1].value.saved = 1
        /\ runs[r2].value.failed = 1 /\ LostRaces(r2) # {}
        /\ Cardinality(store) = 1

\* the listing id each site scraper reads from an apply link (<<>>: none)
ListingId(cls, link) ==
    IF cls = LinkedIn THEN MatchId(link, {"/jobs/view/"})
    ELSE MatchId(link, {"/job/", "/id/", "id="})

\* what each site scraper puts before the listing id
IdPrefix(cls) ==
    IF cls = LinkedIn THEN <<"l","i","n","k","e","d","i","n","-">>
    ELSE Slug(SourceOf(cls)) \o <<"-">>

\* the listing elements with an id in the link
CardsWithId == {CardA, CardA2, CardB}

\* settled runs of one scraper that each extracted the one listing with
\* the same id
SameListingRuns(r1, r2) ==
    /\ r1 # r2
    /\ Settled(r1) /\ Settled(r2)
    /\ runs[r1].cls = runs[r2].cls
    /\ Len(runs[r1].jobs) = 1 /\ Len(runs[r2].jobs) = 1
    /\ ListingId(runs[r1].cls, runs[r1].jobs[1].applyLink) # <<>>
    /\ ListingId(runs[r1].cls, runs[r1].jobs[1].applyLink)
          = ListingId(runs[r2].cls, runs[r2].jobs[1].applyLink)

\* whatever listing with an id the page a run waits for holds, either site
\* scraper gives it prefix[cls] followed by that id; so has every extracted
\* listing with an id in its link, and two runs of one scraper on the same
\* listing share the id, keep one record and do not both count it as saved
ListingIdsAre(prefix) ==
    /\ \A r \in Slots :
          runs[r].pc = "get" =>
              \A cls \in {Oficina, LinkedIn}, card \in CardsWithId :
                  extractJobData(cls, card, now).externalId
                     = prefix[cls] \o ListingId(cls, card.href)
    /\ \A r \in Slots : \A i \in 1..Len(runs[r].jobs) :
          LET id == ListingId(runs[r].cls, runs[r].jobs[i].applyLink)
          IN  (runs[r].cls \in {Oficina, LinkedIn} /\ id # <<>>) =>
                  runs[r].jobs[i].externalId = prefix[runs[r].cls] \o id
    /\ \A r1, r2 \in Slots :
          SameListingRuns(r1, r2) =>
              /\ runs[r1].jobs[1].externalId = runs[r2].jobs[1].externalId
              /\ runs[r1].value.stats.saved + runs[r1].value.stats.duplicates = 1
              /\ runs[r1].value.stats.saved + runs[r2].value.stats.saved <= 1
              /\ Cardinality({d \in store :
                                 d.externalId = runs[r1].jobs[1].externalId}) = 1

\* the slug of the source name as the prefix of both site scrapers
SourceSlugPrefix == [cls \in {Oficina, LinkedIn} |-> Slug(SourceOf(cls)) \o <<"-">>]

\* C18 as stated: the externalId of a listing with an id in its link is the
\* slug of the source name followed by the id, for both site scrapers.
C18_Original == ListingIdsAre(SourceSlugPrefix)

\* C18: the externalId of a listing with an id in its link is the prefix of
\* its site (the slug of the source name for the Oficina scraper, the
\* literal linkedin- for the LinkedIn scraper) followed by the id, whatever
\* the scrape time, the title and the company; two runs that scrape the
\* listing give it the same externalId, the store keeps one record of it and
\* the later run counts it as a duplicate.
C18_StableListingId ==
    ListingIdsAre([cls \in {Oficina, LinkedIn} |-> IdPrefix(cls)])

\* C18 witness: two runs of the LinkedIn scraper extracted the listing with
\* id 17 at different milliseconds; one counted it saved, the other as a
\* duplicate.
C18_Witness ==
    \E r1, r2 \in Slots :
        /\ SameListingRuns(r1, r2)
        /\ runs[r1].cls = LinkedIn
        /\ runs[r1].jobs[1].externalId = <<"l","i","n","k","e","d","i","n","-","1","7">>
        /\ runs[r1].clock # runs[r2].clock
        /\ runs[r1].value.stats.saved = 1
        /\ runs[r2].value.stats.duplicates = 1

\* run r fetched one page, which held one listing, with no id in its link
ScrapedListingWithoutId(r) ==
    /\ Len(runs[r].fetched) = 1
    /\ Len(runs[r].fetched[1].cards) = 1
    /\ Len(runs[r].jobs) = 1
    /\ ListingId(runs[r].cls, runs[r].jobs[1].applyLink) = <<>>

\* the text generateExternalId puts before the timestamp
GeneratedPrefix(cls, job) ==
    Slug(SourceOf(cls)) \o <<"-">> \o Slug(job.company) \o <<"-">> \o Slug(job.title)
        \o <<"-">>

\* C19: the externalId of a listing with no id in its link is source slug,
\* company slug, title slug and the epoch millisecond of the extraction,
\* joined by "-"; two scrapes of the listing at different milliseconds give
\* ids that differ and share the text before the timestamp, the later one
\* matches no earlier record, and each inserts a record of its own and
\* counts it as saved.
C19_TimestampedId ==
    /\ \A r \in Slots :
          ScrapedListingWithoutId(r) =>
              runs[r].jobs[1].externalId
                 = GeneratedPrefix(runs[r].cls, runs[r].jobs[1])
                      \o ToDecimal(runs[r].fetched[1].at)
    /\ \A r1, r2 \in Slots :
          (/\ ScrapedListingWithoutId(r1) /\ ScrapedListingWithoutId(r2)
           /\ runs[r1].fetched[1].cards = runs[r2].fetched[1].cards
           /\ runs[r1].fetched[1].at # runs[r2].fetched[1].at) =>
              /\ runs[r1].jobs[1].externalId # runs[r2].jobs[1].externalId
              /\ GeneratedPrefix(runs[r1].cls, runs[r1].jobs[1])
                    = GeneratedPrefix(runs[r2].cls, runs[r2].jobs[1])
              /\ (Settled(r1) /\ Settled(r2)) =>
                    Cardinality({d \in store :
                        d.externalId \in {runs[r1].jobs[1].externalId,
                                          runs[r2].jobs[1].externalId}}) = 2
    /\ \A r \in Slots :
          (/\ ScrapedListingWithoutId(r) /\ Settled(r)
           /\ \A o \in Slots \ {r} :
                 (/\ ScrapedListingWithoutId(o)
                  /\ runs[o].fetched[1].cards = runs[r].fetched[1].cards) =>
                     runs[o].fetched[1].at # runs[r].fetched[1].at) =>
              /\ runs[r].value.stats.saved = 1
              /\ runs[r].value.stats.duplicates = 0

\* C19 witness: the listing without an id was scraped at millisecond 0 and
\* again at millisecond 1; both runs counted it as saved and the store holds
\* two records of it.
C19_Witness ==
    \E r1, r2 \in Slots :
        /\ ScrapedListingWithoutId(r1) /\ ScrapedListingWithoutId(r2)
        /\ Settled(r1) /\ Settled(r2)
        /\ runs[r1].fetched[1] = [cards |-> <<CardC>>, at |-> 0]
        /\ runs[r2].fetched[1] = [cards |-> <<CardC>>, at |-> 1]
        /\ runs[r1].value.stats.saved = 1
        /\ runs[r2].value.stats.saved = 1
        /\ Cardinality(store) = 2

\* the listings the runs extracted: (run, index in its jobs)
ExtractedListings ==
    {e \in Slots \X (1..2) : e[2] <= Len(runs[e[1]].jobs)}

ListingOf(e) == runs[e[1]].jobs[e[2]]

\* two extracted listings are different listings
DistinctListings(a, b) ==
    \/ ListingOf(a).source # ListingOf(b).source
    \/ ListingOf(a).title # ListingOf(b).title
    \/ ListingOf(a).company # ListingOf(b).company
    \/ ListingOf(a).applyLink # ListingOf(b).applyLink

\* C20: two different listings (of different sources, or of one source with
\* different title, company or apply link) never get the same externalId,
\* also when extracted from one page in the same millisecond; so every
\* listing a settled scrape saved has a record of its own in the store, not
\* overwritten by the upsert of a different listing.
C20_GloballyUniqueIds ==
    /\ \A a, b \in ExtractedListings :
          DistinctListings(a, b) => ListingOf(a).externalId # ListingOf(b).externalId
    /\ \A a \in ExtractedListings :
          Settled(a[1]) =>
              \E d \in store :
                  /\ d.externalId = ListingOf(a).externalId
                  /\ d.applyLink = ListingOf(a).applyLink

\* the calls of extractPostedDate
IsDateCall(r) == runs[r].caller = "extractPostedDate"

\* C21: for every N, extractPostedDate gives for the text "N days ago" and
\* for the text "hace N días" a valid date N days before the time of the
\* call, and for an absent text or a text that is no date the time of the
\* call.
C21_RelativeDates ==
    \A r \in Slots :
        IsDateCall(r) =>
            /\ \A n \in 1..MaxDays :
                  runs[r].arg \in {DaysAgoText(n), HaceDiasText(n)} =>
                      runs[r].value = [valid |-> TRUE, days |-> 0 - n, ms |-> runs[r].clock]
            /\ runs[r].arg \in {<<>>, <<"s","o","o","n">>} =>
                  runs[r].value = NewDate(runs[r].clock)

\* the names in a list of names
NamesIn(list) == {list[i] : i \in 1..Len(list)}

\* C22: register refuses every value that cannot be instantiated, so the
\* registry holds constructors only and a refused call leaves it as it was;
\* after any sequence of register and unregister calls, getScraper(name)
\* returns a new scraper instance when name is registered at the call and
\* throws the not-found error listing the registered names otherwise.
C22_RegistryContract ==
    /\ \A i \in 1..Len(scrapers) : IsConstructor(scrapers[i].cls)
    /\ \A r \in Slots :
          runs[r].caller = "register" =>
              runs[r].outcome = "threw" /\ ~IsConstructor(runs[r].arg.ctor)
    /\ \A r \in Slots :
          runs[r].caller = "getScraper" =>
              IF runs[r].arg.name \in NamesIn(runs[r].arg.available)
              THEN /\ runs[r].outcome = "returned"
                   /\ runs[r].value.jobs = <<>> /\ runs[r].value.errors = <<>>
              ELSE /\ runs[r].outcome = "threw"
                   /\ runs[r].value
                         = ScraperNotFoundError(runs[r].arg.name, runs[r].arg.available)

\* the run of slot r ended with the unknown-scraper error
ThrewUnknownScraper(r) ==
    /\ runs[r].outcome = "threw"
    /\ "available" \in DOMAIN runs[r].value
    /\ runs[r].value.msg = "Unknown scraper"

\* C23: a runScraper call with a name that is not registered throws the
\* error that names the registered scrapers to its caller; the call leaves
\* the active map, the history, the registry and the store as they were, no
\* scraper is instantiated for it and it issues no request and no write.
C23_UnknownNameFailsFast ==
    /\ [](\A r \in Slots :
            ThrewUnknownScraper(r) =>
                /\ runs[r].pc = "done"
                /\ runs[r].value.name = runs[r].scraperName
                /\ runs[r].cls = ""
                /\ runs[r].log = <<>> /\ runs[r].pending = {}
                /\ runs[r].jobs = <<>> /\ runs[r].errors = <<>>
                /\ runs[r].scrapeResult = [none |-> TRUE])
    /\ [][\A r \in Slots :
            (/\ runs[r].pc = "idle" /\ runs'[r].pc # "idle"
             /\ runs'[r].caller \in {"direct", "batch"}
             /\ ~hasScraper(scrapers, runs'[r].scraperName)) =>
                /\ runs'[r].outcome = "threw"
                /\ runs'[r].value = UnknownScraperError(runs'[r].scraperName,
                                                        getAvailableScrapers(scrapers))
                /\ runs'[r].caller = "direct" =>
                      /\ activeScrapes' = activeScrapes
                      /\ scrapeHistory' = scrapeHistory
                      /\ store' = store
                      /\ scrapers' = scrapers
                /\ ActiveHas(activeScrapes', runs'[r].scrapeId) =>
                      \/ ActiveHas(activeScrapes, runs'[r].scrapeId)
                      \/ \E q \in Slots \ {r} :
                            /\ InFlight(q)'
                            /\ runs'[q].scrapeId = runs'[r].scrapeId]_vars

\* C23 witness: while another run is active, a call with an unregistered
\* name has thrown the error listing the two registered scrapers.
C23_Witness ==
    \E r \in Slots :
        /\ ThrewUnknownScraper(r)
        /\ runs[r].caller = "direct"
        /\ runs[r].value = UnknownScraperError("generic",
                                               <<"oficina-trabajo-cei", "linkedin">>)
        /\ \E a \in activeScrapes : a.id # runs[r].scrapeId

\* the calls of fetchAndStoreJobs
IsFetchCall(r) == runs[r].caller = "fetchAndStoreJobs"

\* the positions of the response of call r that hold the job id
PositionsOf(r, id) == {i \in 1..Len(runs[r].jobs) : runs[r].jobs[i].job_id = id}

\* the events ev in the log of call r
EventsOf(r, ev) == {k \in 1..Len(runs[r].log) : runs[r].log[k].ev = ev}

\* call r returned, and every other call whose response held the job id had
\* settled before r began
MostRecentWith(r, id) ==
    /\ IsFetchCall(r) /\ Settled(r) /\ runs[r].outcome = "returned"
    /\ PositionsOf(r, id) # {}
    /\ \A o \in Slots \ {r} :
          (IsFetchCall(o) /\ PositionsOf(o, id) # {}) => o \in runs[r].arg.before

\* C24: the store holds at most one record per job_id; the record carries
\* the fields of the most recent response that held the id; a call returns
\* the number of jobs of its response, new or already stored, after one GET
\* and one upsert per job; a failed API request is thrown to the caller
\* after exactly one GET, without an upsert and with the store unchanged.
C24_FetchAndStore ==
    /\ [](/\ \A d1, d2 \in store : d1.externalId = d2.externalId => d1 = d2
          /\ \A r \in Slots :
                (IsFetchCall(r) /\ Settled(r)) =>
                    /\ Cardinality(EventsOf(r, "get")) = 1
                    /\ runs[r].outcome = "returned" =>
                          /\ runs[r].value.returned = Len(runs[r].jobs)
                          /\ Cardinality(EventsOf(r, "upsert")) = Len(runs[r].jobs)
                    /\ (runs[r].outcome = "threw" /\ runs[r].value.msg \in ApiErrors) =>
                          EventsOf(r, "upsert") = {}
          /\ \A r \in Slots : \A i \in 1..Len(runs[r].jobs) :
                MostRecentWith(r, runs[r].jobs[i].job_id) =>
                    LET last == CHOOSE k \in PositionsOf(r, runs[r].jobs[i].job_id) :
                                   \A j \in PositionsOf(r, runs[r].jobs[i].job_id) : j <= k
                    IN  normalizeJob(runs[r].jobs[last]) \in store)
    /\ [][\A r \in Slots :
            (runs[r].pc = "apiGet" /\ runs'[r].outcome = "threw") =>
                /\ store' = store
                /\ runs'[r].value.msg \in ApiErrors]_vars

\* C24 witness: a call stored job-1, a later call whose response held the
\* changed job-1 returned 1, and the one record of job-1 carries the changed
\* fields; a call whose request failed has thrown.
C24_Witness ==
    \E r1, r2 \in Slots :
        /\ IsFetchCall(r1) /\ IsFetchCall(r2)
        /\ runs[r1].jobs = <<RawA>> /\ Settled(r1)
        /\ runs[r2].jobs = <<RawA2>> /\ Settled(r2)
        /\ r1 \in runs[r2].arg.before
        /\ runs[r2].value.returned = 1 /\ runs[r2].saved = 0
        /\ store = {normalizeJob(RawA2)}

\* C25: for every batch of jobs given to saveJobs, whatever the store
\* answers to each upsert, every job is counted once as saved, duplicate or
\* failed: the counts returned add up to total, which is the number of jobs
\* of the batch.
C25_CountsAddUp ==
    \A r \in Slots :
        (IsSaveCall(r) /\ Settled(r) /\ runs[r].jobs # <<>>) =>
            /\ runs[r].value.total = Len(runs[r].jobs)
            /\ runs[r].value.saved + runs[r].value.duplicates + runs[r].value.failed
                  = runs[r].value.total

\* the waits between pages in a log: the timers set right after a page was
\* fetched (the waits before a retry follow a failure)
PageWaits(L) == {i \in 2..Len(L) : L[i].ev = "delay" /\ L[i - 1].ev = "ok"}

\* C26: the first request of every page after the first comes right after a
\* wait of delayBetweenRequests that followed the fetch of the page before;
\* every wait between pages follows a page that held listings and was not
\* the last one asked for, and is followed by the request of the next page,
\* so no wait follows the last page fetched, whether the loop ended at
\* maxPages or on an empty page.
C26_DelayBetweenPages ==
    \A r \in Slots :
        LET L == runs[r].log
        IN  /\ \A i \in 1..Len(L) :
                  (L[i].ev = "get" /\ L[i].page > 1 /\ L[i].n = 1) =>
                      /\ i - 1 \in PageWaits(L)
                      /\ L[i - 1].n = runs[r].delayBetweenRequests
                      /\ L[i - 2].page = L[i].page - 1
            /\ \A i \in PageWaits(L) :
                  /\ L[i].n = runs[r].delayBetweenRequests
                  /\ L[i - 1].n > 0
                  /\ L[i - 1].page < runs[r].maxPages
                  /\ i = Len(L) => runs[r].pc = "pageDelay"
                  /\ i < Len(L) => L[i + 1] = Event("get", L[i - 1].page + 1, 1)
            /\ runs[r].pc \in {"upsert", "scrapeSettled", "done"} =>
                  \A i \in 1..Len(L) :
                      L[i].ev = "delay" => \E j \in (i + 1)..Len(L) : L[j].ev = "get"

\* C26 witness: a scrape of two pages that both held a listing is past its
\* fetches with exactly one wait between pages, made between the two; the
\* last page was followed by no wait.
C26_Witness ==
    \E r \in Slots :
        LET L == runs[r].log
        IN  /\ runs[r].maxPages = 2
            /\ runs[r].pc \in {"upsert", "scrapeSettled", "done"}
            /\ Len(runs[r].jobs) = 2
            /\ Cardinality(PageWaits(L)) = 1
            /\ \E i \in PageWaits(L) :
                  /\ L[i - 1].page = 1
                  /\ L[i + 1] = Event("get", 2, 1)
            /\ \E i \in 1..Len(L) : L[i].ev = "ok" /\ L[i].page = 2 /\ L[i].n = 1

\* scrape() of run r was called and has not returned yet
InScrape(r) == runs[r].pc \notin {"idle", "scrapeSettled", "done"}

\* scrape() of run r returned a result object
ScrapeReturned(r) ==
    /\ runs[r].pc \in {"scrapeSettled", "done"}
    /\ "success" \in DOMAIN runs[r].scrapeResult

\* C27: every scrape called with an options object ends with a result
\* object, provided every request and store operation returns or fails: it
\* never throws, it issues at most maxPages times maxRetries requests, and
\* no step of another run changes it, takes back a request or a listing of
\* it, or ends it.
C27_ScrapeTerminates ==
    /\ \A r \in 1..TermRuns : InScrape(r) ~> ScrapeReturned(r)
    /\ [](\A r \in 1..TermRuns :
            /\ "rejected" \notin DOMAIN runs[r].scrapeResult
            /\ runs[r].pc \in {"scrapeSettled", "done"} => ScrapeReturned(r)
            /\ Cardinality(EventsOf(r, "get")) <= runs[r].maxPages * runs[r].maxRetries)
    /\ [][\A r \in 1..TermRuns :
            InScrape(r) =>
                /\ InScrape(r)' \/ ScrapeReturned(r)'
                /\ SubSeq(runs'[r].log, 1, Len(runs[r].log)) = runs[r].log
                /\ Len(runs'[r].jobs) >= Len(runs[r].jobs)
                /\ runs'[r] # runs[r] =>
                      \A o \in (1..TermRuns) \ {r} : runs'[o] = runs[o]]_vars

\* C27 witness: one scrape used all its attempts on every page and returned
\* its result, the other failed on a page and returned its result too.
C27_Witness ==
    \E r, o \in 1..TermRuns :
        /\ ScrapeReturned(r) /\ runs[r].scrapeResult.success
        /\ Cardinality(EventsOf(r, "get")) = runs[r].maxPages * runs[r].maxRetries
        /\ ScrapeReturned(o) /\ ~runs[o].scrapeResult.success

\* getScrapeHistory was called in slot r
IsHistoryCall(r) == runs[r].caller = "getScrapeHistory"

\* C28: getScrapeHistory(limit), for every limit >= 0 and for the default of
\* 20, returns the min(limit, length) most recent entries of the history,
\* most recent first; in particular never more than limit entries.
C28_HistoryLimit ==
    \A r \in Slots :
        IsHistoryCall(r) =>
            LET h == runs[r].arg.history
                limit == LimitOf(runs[r].arg.limit)
                n == IF limit < Len(h) THEN limit ELSE Len(h)
                got == runs[r].value.entries
            IN  /\ Len(got) <= limit
                /\ Len(got) = n
                /\ \A i \in 1..n : got[i] = h[Len(h) + 1 - i]

\* C29: the history entry of a completed run has as startTime the time at
\* which the run was marked active and as duration its endTime minus that
\* startTime, so that a run during which the clock advanced has a positive
\* duration and the average duration of the statistics grows by it.
C29_DurationRecorded ==
    [][\A r \in Slots :
          (runs[r].pc = "scrapeSettled" /\ runs'[r].outcome = "returned") =>
              LET a == CHOOSE a \in activeScrapes : a.id = runs[r].scrapeId
                  e == scrapeHistory'[Len(scrapeHistory')]
              IN  /\ e.id = runs[r].scrapeId
                  /\ e.startTime = a.startTime
                  /\ e.duration = e.endTime.ms - a.startTime.ms
                  /\ now > a.startTime.ms => e.duration > 0
                  /\ averageDuration(scrapeHistory').num
                        = averageDuration(scrapeHistory).num + (now - a.startTime.ms)]_vars

\* The slots of the runs the service made a scraper instance for
ServiceRuns == {r \in Slots : runs[r].inst # NoInstance}

RECURSIVE OwnJobs(_, _)
\* The listings the first n pages fetched by run r hold, in fetch order
OwnJobs(r, n) ==
    IF n = 0 THEN <<>>
    ELSE OwnJobs(r, n - 1)
            \o extractJobsFromPage(runs[r].cls, runs[r].fetched[n].cards,
                                    runs[r].fetched[n].at).jobs

RECURSIVE OwnExtractionErrors(_, _)
\* The errors the extraction of the first n pages fetched by run r left
OwnExtractionErrors(r, n) ==
    IF n = 0 THEN <<>>
    ELSE OwnExtractionErrors(r, n - 1)
            \o extractJobsFromPage(runs[r].cls, runs[r].fetched[n].cards,
                                    runs[r].fetched[n].at).errors

\* seq starts with the elements of prefix
StartsWith(seq, prefix) ==
    /\ Len(seq) >= Len(prefix)
    /\ SubSeq(seq, 1, Len(prefix)) = prefix

\* C30: every runScraper call has a scraper instance of its own, so runs in
\* flight together, of the same name or not, share neither jobs nor errors:
\* the jobs a scrape returns are those of the pages it fetched itself, its
\* errors are those of its own extractions, fetches and saves, and no step,
\* the reset() of another run included, takes anything from the jobs or
\* errors a run has accumulated.
C30_OwnAccumulators ==
    /\ [](\A r \in ServiceRuns :
            /\ \A o \in ServiceRuns \ {r} : runs[o].inst # runs[r].inst
            /\ runs[r].pc = "scrapeSettled" =>
                  LET res  == runs[r].scrapeResult
                      n    == Len(runs[r].fetched)
                      ext  == OwnExtractionErrors(r, n)
                  IN  /\ res.jobs = OwnJobs(r, n)
                      /\ StartsWith(res.errors, ext)
                      /\ \A i \in (Len(ext) + 1)..Len(res.errors) :
                            IF "job" \in DOMAIN res.errors[i]
                            THEN /\ res.success
                                 /\ \E k \in 1..Len(res.jobs) : res.jobs[k] = res.errors[i].job
                            ELSE /\ ~res.success
                                 /\ i = Len(res.errors)
                      /\ res.success => Len(res.errors) = Len(ext) + res.stats.failed
            /\ runs[r].outcome = "returned" =>
                  /\ runs[r].value.jobs = runs[r].scrapeResult.jobs
                  /\ runs[r].value.errors = runs[r].scrapeResult.errors)
    /\ [][\A r \in ServiceRuns :
              /\ StartsWith(runs'[r].jobs, runs[r].jobs)
              /\ StartsWith(runs'[r].errors, runs[r].errors)
              /\ (runs'[r].jobs # runs[r].jobs \/ runs'[r].errors # runs[r].errors) =>
                    \A o \in ServiceRuns \ {r} :
                        /\ runs'[o].jobs = runs[o].jobs
                        /\ runs'[o].errors = runs[o].errors]_vars

\* C30 witness: two runs of the same scraper are between their pages at the
\* same time, each holding the listings of the page it fetched, and the two
\* hold different listings.
C30_Witness ==
    \E r, o \in ServiceRuns :
        /\ r # o
        /\ runs[r].scraperName = runs[o].scraperName
        /\ runs[r].pc = "pageDelay" /\ runs[o].pc = "pageDelay"
        /\ Len(runs[r].jobs) >= 1 /\ Len(runs[o].jobs) >= 1
        /\ runs[r].jobs # runs[o].jobs
        /\ runs[r].jobs = OwnJobs(r, 1) /\ runs[o].jobs = OwnJobs(o, 1)
====
